---- MODULE Spec2Model ----
(***************************************************************************)
(* connect-to-forge: conversion of an Atlassian Connect descriptor into a  *)
(* Forge manifest (src/webpack.config.js, lines 27-437: the concatenated   *)
(* index.ts).  The model follows main(): download, genDefaultManifest,     *)
(* convertToForgemanifest with its prompts, loadExistingManifest, the      *)
(* conflict prompt or deepmerge, the warnings gate and the write.          *)
(***************************************************************************)
EXTENDS Integers, Sequences, FiniteSets, TLC

VARIABLES
    pc,             \* where main() is suspended (an await) or how it ended
    remote,         \* what the descriptor URL serves (or that it is unreachable)
    type,           \* the --type option
    connect,        \* connectDescriptor, the downloaded descriptor object
    manifest,       \* the object genDefaultManifest built and the engine mutates
    warnings,       \* the warnings array of convertToForgemanifest
    operations,     \* answers.operations, kept across the inScopeEUD prompt
    existingManifest, \* main's existingManifest, what loadExistingManifest returned
    forgeManifest,  \* main's forgeManifest variable (reassigned by merge)
    outputFile,     \* the file at the output path
    asked,          \* the prompts issued so far, with their answers
    writes,         \* number of fs.writeFileSync calls
    exitCode        \* the argument of process.exit, if it was called

vars == <<pc, remote, type, connect, manifest, warnings, operations,
          existingManifest, forgeManifest, outputFile, asked, writes, exitCode>>

(***************************************************************************)
(* JavaScript values.  Each kind is a record with its own field name, so   *)
(* values of different kinds are comparable.                               *)
(***************************************************************************)
Str(s)  == [s |-> s]          \* a string the code never looks inside
Txt(cs) == [c |-> cs]         \* a string as its characters
Bool(b) == [b |-> b]
Num(n)  == [n |-> n]
Obj(f)  == [o |-> f]          \* an object: property name -> value
Arr(q)  == [a |-> q]          \* an array
Null    == [z |-> "null"]
Undef   == [u |-> "undefined"]

IsObj(v) == DOMAIN v = {"o"}
IsArr(v) == DOMAIN v = {"a"}
IsTxt(v) == DOMAIN v = {"c"}
IsStr(v) == DOMAIN v = {"s"}

EmptyMap == [k \in {} |-> Null]

\* v.k (v?.k when v is no object); a missing property reads as undefined
Prop(v, k) == IF IsObj(v) /\ k \in DOMAIN v.o THEN v.o[k] ELSE Undef

HasProp(v, k) == IsObj(v) /\ k \in DOMAIN v.o

\* v.k = x
Put(v, k, x) == Obj([kk \in (DOMAIN v.o) \cup {k} |-> IF kk = k THEN x ELSE v.o[kk]])

\* v.k1.k2 = x
Put2(v, k1, k2, x) == Put(v, k1, Put(v.o[k1], k2, x))

\* v.k1.k2.k3 = x
Put3(v, k1, k2, k3, x) == Put(v, k1, Put2(v.o[k1], k2, k3, x))

\* the own enumerable properties that Object.entries and Object.keys list, for
\* a value that is neither null nor undefined: those of an object, the indices
\* of an array or of a string, none of a number or a boolean
entries(v) ==
    IF IsObj(v) THEN v.o
    ELSE IF IsArr(v)
         THEN [k \in {ToString(i - 1) : i \in DOMAIN v.a} |->
                 v.a[CHOOSE i \in DOMAIN v.a : ToString(i - 1) = k]]
    ELSE IF IsTxt(v)
         THEN [k \in {ToString(i - 1) : i \in DOMAIN v.c} |->
                 Txt(<<v.c[CHOOSE i \in DOMAIN v.c : ToString(i - 1) = k]>>)]
    ELSE IF IsStr(v)
         THEN [k \in {ToString(i - 1) : i \in 1..Len(v.s)} |->
                 LET i == CHOOSE j \in 1..Len(v.s) : ToString(j - 1) = k
                 IN  Str(SubSeq(v.s, i, i))]
    ELSE EmptyMap

\* JavaScript truthiness, as used by if (...) and ||
Truthy(v) == v \notin {Undef, Null, Bool(FALSE), Str(""), Txt(<<>>), Num(0)}

\* ts-is-present
isPresent(v) == v \notin {Undef, Null}

(***************************************************************************)
(* Strings.                                                                *)
(***************************************************************************)
\* The characters of a string are one-character strings.  A character that
\* cannot be written in a string of this language is no character of the
\* model, except as the result of a conversion, where it is named by its code
\* point, as in "U+0253".
\*
\* The characters with a lower-case mapping of their own, in code point
\* order: those of Unicode 14 and the characters assigned since (Unicode 15
\* to 17); sigma is mapped by its context in toLowerCase
UpperChars == <<
    "A", "B", "C", "D", "E", "F", "G", "H", "I", "J", "K", "L", "M", "N", "O", "P", "Q", "R",
    "S", "T", "U", "V", "W", "X", "Y", "Z", "À", "Á", "Â", "Ã", "Ä", "Å", "Æ", "Ç", "È", "É",
    "Ê", "Ë", "Ì", "Í", "Î", "Ï", "Ð", "Ñ", "Ò", "Ó", "Ô", "Õ", "Ö", "Ø", "Ù", "Ú", "Û", "Ü",
    "Ý", "Þ", "Ɓ", "Ƃ", "Ƅ", "Ɔ", "Ƈ", "Ɖ", "Ɗ", "Ƌ", "Ǝ", "Ə", "Ɛ", "Ƒ", "Ɠ", "Ɣ", "Ɩ", "Ɨ",
    "Ƙ", "Ɯ", "Ɲ", "Ɵ", "Ơ", "Ƣ", "Ƥ", "Ʀ", "Ƨ", "Ʃ", "Ƭ", "Ʈ", "Ư", "Ʊ", "Ʋ", "Ƴ", "Ƶ", "Ʒ",
    "Ƹ", "Ƽ", "Ǆ", "ǅ", "Ǉ", "ǈ", "Ǌ", "ǋ", "Ǎ", "Ǐ", "Ǒ", "Ǔ", "Ǖ", "Ǘ", "Ǚ", "Ǜ", "Ǟ", "Ǡ",
    "Ǣ", "Ǥ", "Ǧ", "Ǩ", "Ǫ", "Ǭ", "Ǯ", "Ǳ", "ǲ", "Ǵ", "Ƕ", "Ƿ", "Ǹ", "Ǻ", "Ǽ", "Ǿ", "Ά", "Έ",
    "Ή", "Ί", "Ό", "Ύ", "Ώ", "Α", "Β", "Γ", "Δ", "Ε", "Ζ", "Η", "Θ", "Ι", "Κ", "Λ", "Μ", "Ν",
    "Ξ", "Ο", "Π", "Ρ", "Τ", "Υ", "Φ", "Χ", "Ψ", "Ω", "Ϊ", "Ϋ", "Ϗ", "Ϙ", "Ϛ", "Ϝ", "Ϟ", "Ϡ",
    "Ϣ", "Ϥ", "Ϧ", "Ϩ", "Ϫ", "Ϭ", "Ϯ", "ϴ", "Ϸ", "Ϲ", "Ϻ", "Ͻ", "Ͼ", "Ͽ", "Ҁ", "Ҋ", "Ҍ", "Ҏ",
    "Ґ", "Ғ", "Ҕ", "Җ", "Ҙ", "Қ", "Ҝ", "Ҟ", "Ҡ", "Ң", "Ҥ", "Ҧ", "Ҩ", "Ҫ", "Ҭ", "Ү", "Ұ", "Ҳ",
    "Ҵ", "Ҷ", "Ҹ", "Һ", "Ҽ", "Ҿ", "Ӏ", "Ӂ", "Ӄ", "Ӆ", "Ӈ", "Ӊ", "Ӌ", "Ӎ", "Ӑ", "Ӓ", "Ӕ", "Ӗ",
    "Ә", "Ӛ", "Ӝ", "Ӟ", "Ӡ", "Ӣ", "Ӥ", "Ӧ", "Ө", "Ӫ", "Ӭ", "Ӯ", "Ӱ", "Ӳ", "Ӵ", "Ӷ", "Ӹ", "Ӻ",
    "Ӽ", "Ӿ", "Ⴀ", "Ⴁ", "Ⴂ", "Ⴃ", "Ⴄ", "Ⴅ", "Ⴆ", "Ⴇ", "Ⴈ", "Ⴉ", "Ⴊ", "Ⴋ", "Ⴌ", "Ⴍ", "Ⴎ", "Ⴏ",
    "Ⴐ", "Ⴑ", "Ⴒ", "Ⴓ", "Ⴔ", "Ⴕ", "Ⴖ", "Ⴗ", "Ⴘ", "Ⴙ", "Ⴚ", "Ⴛ", "Ⴜ", "Ⴝ", "Ⴞ", "Ⴟ", "Ⴠ", "Ⴡ",
    "Ⴢ", "Ⴣ", "Ⴤ", "Ⴥ", "Ⴧ", "Ⴭ", "Ꭰ", "Ꭱ", "Ꭲ", "Ꭳ", "Ꭴ", "Ꭵ", "Ꭶ", "Ꭷ", "Ꭸ", "Ꭹ", "Ꭺ", "Ꭻ",
    "Ꭼ", "Ꭽ", "Ꭾ", "Ꭿ", "Ꮀ", "Ꮁ", "Ꮂ", "Ꮃ", "Ꮄ", "Ꮅ", "Ꮆ", "Ꮇ", "Ꮈ", "Ꮉ", "Ꮊ", "Ꮋ", "Ꮌ", "Ꮍ",
    "Ꮎ", "Ꮏ", "Ꮐ", "Ꮑ", "Ꮒ", "Ꮓ", "Ꮔ", "Ꮕ", "Ꮖ", "Ꮗ", "Ꮘ", "Ꮙ", "Ꮚ", "Ꮛ", "Ꮜ", "Ꮝ", "Ꮞ", "Ꮟ",
    "Ꮠ", "Ꮡ", "Ꮢ", "Ꮣ", "Ꮤ", "Ꮥ", "Ꮦ", "Ꮧ", "Ꮨ", "Ꮩ", "Ꮪ", "Ꮫ", "Ꮬ", "Ꮭ", "Ꮮ", "Ꮯ", "Ꮰ", "Ꮱ",
    "Ꮲ", "Ꮳ", "Ꮴ", "Ꮵ", "Ꮶ", "Ꮷ", "Ꮸ", "Ꮹ", "Ꮺ", "Ꮻ", "Ꮼ", "Ꮽ", "Ꮾ", "Ꮿ", "Ᏸ", "Ᏹ", "Ᏺ", "Ᏻ",
    "Ᏼ", "Ᏽ", "Ᲊ", "Ა", "Ბ", "Გ", "Დ", "Ე", "Ვ", "Ზ", "Თ", "Ი", "Კ", "Ლ", "Მ", "Ნ", "Ო", "Პ",
    "Ჟ", "Რ", "Ს", "Ტ", "Უ", "Ფ", "Ქ", "Ღ", "Ყ", "Შ", "Ჩ", "Ც", "Ძ", "Წ", "Ჭ", "Ხ", "Ჯ", "Ჰ",
    "Ჱ", "Ჲ", "Ჳ", "Ჴ", "Ჵ", "Ჶ", "Ჷ", "Ჸ", "Ჹ", "Ჺ", "Ჽ", "Ჾ", "Ჿ", "Ẁ", "Ẃ", "Ẅ", "Ẇ", "Ẉ",
    "Ẋ", "Ẍ", "Ẏ", "Ẑ", "Ẓ", "Ẕ", "ẞ", "Ạ", "Ả", "Ấ", "Ầ", "Ẩ", "Ẫ", "Ậ", "Ắ", "Ằ", "Ẳ", "Ẵ",
    "Ặ", "Ẹ", "Ẻ", "Ẽ", "Ế", "Ề", "Ể", "Ễ", "Ệ", "Ỉ", "Ị", "Ọ", "Ỏ", "Ố", "Ồ", "Ổ", "Ỗ", "Ộ",
    "Ớ", "Ờ", "Ở", "Ỡ", "Ợ", "Ụ", "Ủ", "Ứ", "Ừ", "Ử", "Ữ", "Ự", "Ỳ", "Ỵ", "Ỷ", "Ỹ", "Ỻ", "Ỽ",
    "Ỿ", "ᾈ", "ᾉ", "ᾊ", "ᾋ", "ᾌ", "ᾍ", "ᾎ", "ᾏ", "ᾘ", "ᾙ", "ᾚ", "ᾛ", "ᾜ", "ᾝ", "ᾞ", "ᾟ", "ᾨ",
    "ᾩ", "ᾪ", "ᾫ", "ᾬ", "ᾭ", "ᾮ", "ᾯ", "Ᾰ", "Ᾱ", "Ὰ", "Ά", "ᾼ", "Ὲ", "Έ", "Ὴ", "Ή", "ῌ", "Ῐ",
    "Ῑ", "Ὶ", "Ί", "Ῠ", "Ῡ", "Ὺ", "Ύ", "Ῥ", "Ὸ", "Ό", "Ὼ", "Ώ", "ῼ", "Ↄ", "Ⓐ", "Ⓑ", "Ⓒ", "Ⓓ",
    "Ⓔ", "Ⓕ", "Ⓖ", "Ⓗ", "Ⓘ", "Ⓙ", "Ⓚ", "Ⓛ", "Ⓜ", "Ⓝ", "Ⓞ", "Ⓟ", "Ⓠ", "Ⓡ", "Ⓢ", "Ⓣ", "Ⓤ", "Ⓥ",
    "Ⓦ", "Ⓧ", "Ⓨ", "Ⓩ", "Ⲁ", "Ⲃ", "Ⲅ", "Ⲇ", "Ⲉ", "Ⲋ", "Ⲍ", "Ⲏ", "Ⲑ", "Ⲓ", "Ⲕ", "Ⲗ", "Ⲙ", "Ⲛ",
    "Ⲝ", "Ⲟ", "Ⲡ", "Ⲣ", "Ⲥ", "Ⲧ", "Ⲩ", "Ⲫ", "Ⲭ", "Ⲯ", "Ⲱ", "Ⲳ", "Ⲵ", "Ⲷ", "Ⲹ", "Ⲻ", "Ⲽ", "Ⲿ",
    "Ⳁ", "Ⳃ", "Ⳅ", "Ⳇ", "Ⳉ", "Ⳋ", "Ⳍ", "Ⳏ", "Ⳑ", "Ⳓ", "Ⳕ", "Ⳗ", "Ⳙ", "Ⳛ", "Ⳝ", "Ⳟ", "Ⳡ", "Ⳣ",
    "Ⳬ", "Ⳮ", "Ⳳ", "Ꚁ", "Ꚃ", "Ꚅ", "Ꚇ", "Ꚉ", "Ꚋ", "Ꚍ", "Ꚏ", "Ꚑ", "Ꚓ", "Ꚕ", "Ꚗ", "Ꚙ", "Ꚛ", "Ꞁ",
    "Ꞃ", "Ꞅ", "Ꞇ", "Ꞌ", "Ɥ", "Ꞑ", "Ꞓ", "Ꞗ", "Ꞙ", "Ꞛ", "Ꞝ", "Ꞟ", "Ꞡ", "Ꞣ", "Ꞥ", "Ꞧ", "Ꞩ", "Ɦ",
    "Ɜ", "Ɡ", "Ɬ", "Ɪ", "Ʞ", "Ʇ", "Ʝ", "Ꭓ", "Ꞵ", "Ꞷ", "Ꞹ", "Ꞻ", "Ꞽ", "Ꞿ", "Ꟁ", "Ꟃ", "Ꞔ", "Ʂ",
    "Ᶎ", "Ꟈ", "Ꟊ", "Ɤ", "Ꟍ", "꟎", "Ꟑ", "꟒", "꟔", "Ꟗ", "Ꟙ", "Ꟛ", "Ƛ", "Ꟶ" >>

\* their lower-case forms, position by position
LowerChars == <<
    "a", "b", "c", "d", "e", "f", "g", "h", "i", "j", "k", "l", "m", "n", "o", "p", "q", "r",
    "s", "t", "u", "v", "w", "x", "y", "z", "à", "á", "â", "ã", "ä", "å", "æ", "ç", "è", "é",
    "ê", "ë", "ì", "í", "î", "ï", "ð", "ñ", "ò", "ó", "ô", "õ", "ö", "ø", "ù", "ú", "û", "ü",
    "ý", "þ", "U+0253", "ƃ", "ƅ", "U+0254", "ƈ", "U+0256", "U+0257", "ƌ", "ǝ", "U+0259",
    "U+025B", "ƒ", "U+0260", "U+0263", "U+0269", "U+0268", "ƙ", "U+026F", "U+0272", "U+0275",
    "ơ", "ƣ", "ƥ", "ʀ", "ƨ", "ʃ", "ƭ", "ʈ", "ư", "ʊ", "ʋ", "ƴ", "ƶ", "ʒ", "ƹ", "ƽ", "ǆ", "ǆ",
    "ǉ", "ǉ", "ǌ", "ǌ", "ǎ", "ǐ", "ǒ", "ǔ", "ǖ", "ǘ", "ǚ", "ǜ", "ǟ", "ǡ", "ǣ", "ǥ", "ǧ", "ǩ",
    "ǫ", "ǭ", "ǯ", "ǳ", "ǳ", "ǵ", "ƕ", "ƿ", "ǹ", "ǻ", "ǽ", "ǿ", "ά", "έ", "ή", "ί", "ό", "ύ",
    "ώ", "α", "β", "γ", "δ", "ε", "ζ", "η", "θ", "ι", "κ", "λ", "μ", "ν", "ξ", "ο", "π", "ρ",
    "τ", "υ", "φ", "χ", "ψ", "ω", "ϊ", "ϋ", "ϗ", "ϙ", "ϛ", "ϝ", "ϟ", "ϡ", "ϣ", "ϥ", "ϧ", "ϩ",
    "ϫ", "ϭ", "ϯ", "θ", "ϸ", "ϲ", "ϻ", "U+037B", "U+037C", "U+037D", "ҁ", "ҋ", "ҍ", "ҏ", "ґ",
    "ғ", "ҕ", "җ", "ҙ", "қ", "ҝ", "ҟ", "ҡ", "ң", "ҥ", "ҧ", "ҩ", "ҫ", "ҭ", "ү", "ұ", "ҳ", "ҵ",
    "ҷ", "ҹ", "һ", "ҽ", "ҿ", "ӏ", "ӂ", "ӄ", "ӆ", "ӈ", "ӊ", "ӌ", "ӎ", "ӑ", "ӓ", "ӕ", "ӗ", "ә",
    "ӛ", "ӝ", "ӟ", "ӡ", "ӣ", "ӥ", "ӧ", "ө", "ӫ", "ӭ", "ӯ", "ӱ", "ӳ", "ӵ", "ӷ", "ӹ", "ӻ", "ӽ",
    "ӿ", "U+2D00", "U+2D01", "U+2D02", "U+2D03", "U+2D04", "U+2D05", "U+2D06", "U+2D07",
    "U+2D08", "U+2D09", "U+2D0A", "U+2D0B", "U+2D0C", "U+2D0D", "U+2D0E", "U+2D0F", "U+2D10",
    "U+2D11", "U+2D12", "U+2D13", "U+2D14", "U+2D15", "U+2D16", "U+2D17", "U+2D18", "U+2D19",
    "U+2D1A", "U+2D1B", "U+2D1C", "U+2D1D", "U+2D1E", "U+2D1F", "U+2D20", "U+2D21", "U+2D22",
    "U+2D23", "U+2D24", "U+2D25", "U+2D27", "U+2D2D", "U+AB70", "U+AB71", "U+AB72", "U+AB73",
    "U+AB74", "U+AB75", "U+AB76", "U+AB77", "U+AB78", "U+AB79", "U+AB7A", "U+AB7B", "U+AB7C",
    "U+AB7D", "U+AB7E", "U+AB7F", "ꮀ", "ꮁ", "ꮂ", "ꮃ", "ꮄ", "ꮅ", "ꮆ", "ꮇ", "ꮈ", "ꮉ", "ꮊ", "ꮋ",
    "ꮌ", "ꮍ", "ꮎ", "ꮏ", "ꮐ", "ꮑ", "ꮒ", "ꮓ", "ꮔ", "ꮕ", "ꮖ", "ꮗ", "ꮘ", "ꮙ", "ꮚ", "ꮛ", "ꮜ", "ꮝ",
    "ꮞ", "ꮟ", "ꮠ", "ꮡ", "ꮢ", "ꮣ", "ꮤ", "ꮥ", "ꮦ", "ꮧ", "ꮨ", "ꮩ", "ꮪ", "ꮫ", "ꮬ", "ꮭ", "ꮮ", "ꮯ",
    "ꮰ", "ꮱ", "ꮲ", "ꮳ", "ꮴ", "ꮵ", "ꮶ", "ꮷ", "ꮸ", "ꮹ", "ꮺ", "ꮻ", "ꮼ", "ꮽ", "ꮾ", "ꮿ", "ᏸ", "ᏹ",
    "ᏺ", "ᏻ", "ᏼ", "ᏽ", "ᲊ", "ა", "ბ", "გ", "დ", "ე", "ვ", "ზ", "თ", "ი", "კ", "ლ", "მ", "ნ",
    "ო", "პ", "ჟ", "რ", "ს", "ტ", "უ", "ფ", "ქ", "ღ", "ყ", "შ", "ჩ", "ც", "ძ", "წ", "ჭ", "ხ",
    "ჯ", "ჰ", "ჱ", "ჲ", "ჳ", "ჴ", "ჵ", "ჶ", "ჷ", "ჸ", "ჹ", "ჺ", "ჽ", "ჾ", "ჿ", "ẁ", "ẃ", "ẅ",
    "ẇ", "ẉ", "ẋ", "ẍ", "ẏ", "ẑ", "ẓ", "ẕ", "ß", "ạ", "ả", "ấ", "ầ", "ẩ", "ẫ", "ậ", "ắ", "ằ",
    "ẳ", "ẵ", "ặ", "ẹ", "ẻ", "ẽ", "ế", "ề", "ể", "ễ", "ệ", "ỉ", "ị", "ọ", "ỏ", "ố", "ồ", "ổ",
    "ỗ", "ộ", "ớ", "ờ", "ở", "ỡ", "ợ", "ụ", "ủ", "ứ", "ừ", "ử", "ữ", "ự", "ỳ", "ỵ", "ỷ", "ỹ",
    "ỻ", "ỽ", "ỿ", "ᾀ", "ᾁ", "ᾂ", "ᾃ", "ᾄ", "ᾅ", "ᾆ", "ᾇ", "ᾐ", "ᾑ", "ᾒ", "ᾓ", "ᾔ", "ᾕ", "ᾖ",
    "ᾗ", "ᾠ", "ᾡ", "ᾢ", "ᾣ", "ᾤ", "ᾥ", "ᾦ", "ᾧ", "ᾰ", "ᾱ", "U+1F70", "U+1F71", "ᾳ", "U+1F72",
    "U+1F73", "U+1F74", "U+1F75", "ῃ", "ῐ", "ῑ", "U+1F76", "U+1F77", "ῠ", "ῡ", "U+1F7A",
    "U+1F7B", "ῥ", "U+1F78", "U+1F79", "U+1F7C", "U+1F7D", "ῳ", "ↄ", "ⓐ", "ⓑ", "ⓒ", "ⓓ", "ⓔ",
    "ⓕ", "ⓖ", "ⓗ", "ⓘ", "ⓙ", "ⓚ", "ⓛ", "ⓜ", "ⓝ", "ⓞ", "ⓟ", "ⓠ", "ⓡ", "ⓢ", "ⓣ", "ⓤ", "ⓥ", "ⓦ",
    "ⓧ", "ⓨ", "ⓩ", "ⲁ", "ⲃ", "ⲅ", "ⲇ", "ⲉ", "ⲋ", "ⲍ", "ⲏ", "ⲑ", "ⲓ", "ⲕ", "ⲗ", "ⲙ", "ⲛ", "ⲝ",
    "ⲟ", "ⲡ", "ⲣ", "ⲥ", "ⲧ", "ⲩ", "ⲫ", "ⲭ", "ⲯ", "ⲱ", "ⲳ", "ⲵ", "ⲷ", "ⲹ", "ⲻ", "ⲽ", "ⲿ", "ⳁ",
    "ⳃ", "ⳅ", "ⳇ", "ⳉ", "ⳋ", "ⳍ", "ⳏ", "ⳑ", "ⳓ", "ⳕ", "ⳗ", "ⳙ", "ⳛ", "ⳝ", "ⳟ", "ⳡ", "ⳣ", "ⳬ",
    "ⳮ", "ⳳ", "ꚁ", "ꚃ", "ꚅ", "ꚇ", "ꚉ", "ꚋ", "ꚍ", "ꚏ", "ꚑ", "ꚓ", "ꚕ", "ꚗ", "ꚙ", "ꚛ", "ꞁ", "ꞃ",
    "ꞅ", "ꞇ", "ꞌ", "U+0265", "ꞑ", "ꞓ", "ꞗ", "ꞙ", "ꞛ", "ꞝ", "ꞟ", "ꞡ", "ꞣ", "ꞥ", "ꞧ", "ꞩ",
    "U+0266", "U+025C", "U+0261", "U+026C", "U+026A", "ʞ", "ʇ", "ʝ", "U+AB53", "ꞵ", "ꞷ", "ꞹ",
    "ꞻ", "ꞽ", "ꞿ", "ꟁ", "ꟃ", "ꞔ", "ʂ", "ᶎ", "ꟈ", "ꟊ", "U+0264", "ꟍ", "꟏", "ꟑ", "ꟓ", "ꟕ", "ꟗ",
    "ꟙ", "ꟛ", "ƛ", "ꟶ" >>

\* the characters with the property Cased
CasedChars == {
    "A", "B", "C", "D", "E", "F", "G", "H", "I", "J", "K", "L", "M", "N", "O", "P", "Q", "R",
    "S", "T", "U", "V", "W", "X", "Y", "Z", "a", "b", "c", "d", "e", "f", "g", "h", "i", "j",
    "k", "l", "m", "n", "o", "p", "q", "r", "s", "t", "u", "v", "w", "x", "y", "z", "ª", "µ",
    "º", "À", "Á", "Â", "Ã", "Ä", "Å", "Æ", "Ç", "È", "É", "Ê", "Ë", "Ì", "Í", "Î", "Ï", "Ð",
    "Ñ", "Ò", "Ó", "Ô", "Õ", "Ö", "Ø", "Ù", "Ú", "Û", "Ü", "Ý", "Þ", "ß", "à", "á", "â", "ã",
    "ä", "å", "æ", "ç", "è", "é", "ê", "ë", "ì", "í", "î", "ï", "ð", "ñ", "ò", "ó", "ô", "õ",
    "ö", "ø", "ù", "ú", "û", "ü", "ý", "þ", "ÿ", "ƀ", "Ɓ", "Ƃ", "ƃ", "Ƅ", "ƅ", "Ɔ", "Ƈ", "ƈ",
    "Ɖ", "Ɗ", "Ƌ", "ƌ", "ƍ", "Ǝ", "Ə", "Ɛ", "Ƒ", "ƒ", "Ɠ", "Ɣ", "ƕ", "Ɩ", "Ɨ", "Ƙ", "ƙ", "ƚ",
    "ƛ", "Ɯ", "Ɲ", "ƞ", "Ɵ", "Ơ", "ơ", "Ƣ", "ƣ", "Ƥ", "ƥ", "Ʀ", "Ƨ", "ƨ", "Ʃ", "ƪ", "ƫ", "Ƭ",
    "ƭ", "Ʈ", "Ư", "ư", "Ʊ", "Ʋ", "Ƴ", "ƴ", "Ƶ", "ƶ", "Ʒ", "Ƹ", "ƹ", "ƺ", "Ƽ", "ƽ", "ƾ", "ƿ",
    "Ǆ", "ǅ", "ǆ", "Ǉ", "ǈ", "ǉ", "Ǌ", "ǋ", "ǌ", "Ǎ", "ǎ", "Ǐ", "ǐ", "Ǒ", "ǒ", "Ǔ", "ǔ", "Ǖ",
    "ǖ", "Ǘ", "ǘ", "Ǚ", "ǚ", "Ǜ", "ǜ", "ǝ", "Ǟ", "ǟ", "Ǡ", "ǡ", "Ǣ", "ǣ", "Ǥ", "ǥ", "Ǧ", "ǧ",
    "Ǩ", "ǩ", "Ǫ", "ǫ", "Ǭ", "ǭ", "Ǯ", "ǯ", "ǰ", "Ǳ", "ǲ", "ǳ", "Ǵ", "ǵ", "Ƕ", "Ƿ", "Ǹ", "ǹ",
    "Ǻ", "ǻ", "Ǽ", "ǽ", "Ǿ", "ǿ", "ʀ", "ʁ", "ʂ", "ʃ", "ʄ", "ʅ", "ʆ", "ʇ", "ʈ", "ʉ", "ʊ", "ʋ",
    "ʌ", "ʍ", "ʎ", "ʏ", "ʐ", "ʑ", "ʒ", "ʓ", "ʖ", "ʗ", "ʘ", "ʙ", "ʚ", "ʛ", "ʜ", "ʝ", "ʞ",
    "ʟ", "ʠ", "ʡ", "ʢ", "ʣ", "ʤ", "ʥ", "ʦ", "ʧ", "ʨ", "ʩ", "ʪ", "ʫ", "ʬ", "ʭ", "ʮ", "ʯ", "Ά",
    "Έ", "Ή", "Ί", "Ό", "Ύ", "Ώ", "ΐ", "Α", "Β", "Γ", "Δ", "Ε", "Ζ", "Η", "Θ", "Ι", "Κ", "Λ",
    "Μ", "Ν", "Ξ", "Ο", "Π", "Ρ", "Σ", "Τ", "Υ", "Φ", "Χ", "Ψ", "Ω", "Ϊ", "Ϋ", "ά", "έ", "ή",
    "ί", "ΰ", "α", "β", "γ", "δ", "ε", "ζ", "η", "θ", "ι", "κ", "λ", "μ", "ν", "ξ", "ο", "π",
    "ρ", "ς", "σ", "τ", "υ", "φ", "χ", "ψ", "ω", "ϊ", "ϋ", "ό", "ύ", "ώ", "Ϗ", "ϐ", "ϑ", "ϒ",
    "ϓ", "ϔ", "ϕ", "ϖ", "ϗ", "Ϙ", "ϙ", "Ϛ", "ϛ", "Ϝ", "ϝ", "Ϟ", "ϟ", "Ϡ", "ϡ", "Ϣ", "ϣ", "Ϥ",
    "ϥ", "Ϧ", "ϧ", "Ϩ", "ϩ", "Ϫ", "ϫ", "Ϭ", "ϭ", "Ϯ", "ϯ", "ϰ", "ϱ", "ϲ", "ϳ", "ϴ", "ϵ", "Ϸ",
    "ϸ", "Ϲ", "Ϻ", "ϻ", "ϼ", "Ͻ", "Ͼ", "Ͽ", "Ҁ", "ҁ", "Ҋ", "ҋ", "Ҍ", "ҍ", "Ҏ", "ҏ", "Ґ", "ґ",
    "Ғ", "ғ", "Ҕ", "ҕ", "Җ", "җ", "Ҙ", "ҙ", "Қ", "қ", "Ҝ", "ҝ", "Ҟ", "ҟ", "Ҡ", "ҡ", "Ң", "ң",
    "Ҥ", "ҥ", "Ҧ", "ҧ", "Ҩ", "ҩ", "Ҫ", "ҫ", "Ҭ", "ҭ", "Ү", "ү", "Ұ", "ұ", "Ҳ", "ҳ", "Ҵ", "ҵ",
    "Ҷ", "ҷ", "Ҹ", "ҹ", "Һ", "һ", "Ҽ", "ҽ", "Ҿ", "ҿ", "Ӏ", "Ӂ", "ӂ", "Ӄ", "ӄ", "Ӆ", "ӆ", "Ӈ",
    "ӈ", "Ӊ", "ӊ", "Ӌ", "ӌ", "Ӎ", "ӎ", "ӏ", "Ӑ", "ӑ", "Ӓ", "ӓ", "Ӕ", "ӕ", "Ӗ", "ӗ", "Ә", "ә",
    "Ӛ", "ӛ", "Ӝ", "ӝ", "Ӟ", "ӟ", "Ӡ", "ӡ", "Ӣ", "ӣ", "Ӥ", "ӥ", "Ӧ", "ӧ", "Ө", "ө", "Ӫ", "ӫ",
    "Ӭ", "ӭ", "Ӯ", "ӯ", "Ӱ", "ӱ", "Ӳ", "ӳ", "Ӵ", "ӵ", "Ӷ", "ӷ", "Ӹ", "ӹ", "Ӻ", "ӻ", "Ӽ", "ӽ",
    "Ӿ", "ӿ", "ր", "ց", "ւ", "փ", "ք", "օ", "ֆ", "և", "ֈ", "Ⴀ", "Ⴁ", "Ⴂ", "Ⴃ", "Ⴄ", "Ⴅ", "Ⴆ",
    "Ⴇ", "Ⴈ", "Ⴉ", "Ⴊ", "Ⴋ", "Ⴌ", "Ⴍ", "Ⴎ", "Ⴏ", "Ⴐ", "Ⴑ", "Ⴒ", "Ⴓ", "Ⴔ", "Ⴕ", "Ⴖ", "Ⴗ", "Ⴘ",
    "Ⴙ", "Ⴚ", "Ⴛ", "Ⴜ", "Ⴝ", "Ⴞ", "Ⴟ", "Ⴠ", "Ⴡ", "Ⴢ", "Ⴣ", "Ⴤ", "Ⴥ", "Ⴧ", "Ⴭ", "ა", "ბ", "გ",
    "დ", "ე", "ვ", "ზ", "თ", "ი", "კ", "ლ", "მ", "ნ", "ო", "პ", "ჟ", "რ", "ს", "ტ", "უ", "ფ",
    "ქ", "ღ", "ყ", "შ", "ჩ", "ც", "ძ", "წ", "ჭ", "ხ", "ჯ", "ჰ", "ჱ", "ჲ", "ჳ", "ჴ", "ჵ", "ჶ",
    "ჷ", "ჸ", "ჹ", "ჺ", "ჽ", "ჾ", "ჿ", "Ꭰ", "Ꭱ", "Ꭲ", "Ꭳ", "Ꭴ", "Ꭵ", "Ꭶ", "Ꭷ", "Ꭸ", "Ꭹ", "Ꭺ",
    "Ꭻ", "Ꭼ", "Ꭽ", "Ꭾ", "Ꭿ", "Ꮀ", "Ꮁ", "Ꮂ", "Ꮃ", "Ꮄ", "Ꮅ", "Ꮆ", "Ꮇ", "Ꮈ", "Ꮉ", "Ꮊ", "Ꮋ", "Ꮌ",
    "Ꮍ", "Ꮎ", "Ꮏ", "Ꮐ", "Ꮑ", "Ꮒ", "Ꮓ", "Ꮔ", "Ꮕ", "Ꮖ", "Ꮗ", "Ꮘ", "Ꮙ", "Ꮚ", "Ꮛ", "Ꮜ", "Ꮝ", "Ꮞ",
    "Ꮟ", "Ꮠ", "Ꮡ", "Ꮢ", "Ꮣ", "Ꮤ", "Ꮥ", "Ꮦ", "Ꮧ", "Ꮨ", "Ꮩ", "Ꮪ", "Ꮫ", "Ꮬ", "Ꮭ", "Ꮮ", "Ꮯ", "Ꮰ",
    "Ꮱ", "Ꮲ", "Ꮳ", "Ꮴ", "Ꮵ", "Ꮶ", "Ꮷ", "Ꮸ", "Ꮹ", "Ꮺ", "Ꮻ", "Ꮼ", "Ꮽ", "Ꮾ", "Ꮿ", "Ᏸ", "Ᏹ", "Ᏺ",
    "Ᏻ", "Ᏼ", "Ᏽ", "ᏸ", "ᏹ", "ᏺ", "ᏻ", "ᏼ", "ᏽ", "ᲀ", "ᲁ", "ᲂ", "ᲃ", "ᲄ", "ᲅ", "ᲆ", "ᲇ", "ᲈ",
    "Ᲊ", "ᲊ", "Ა", "Ბ", "Გ", "Დ", "Ე", "Ვ", "Ზ", "Თ", "Ი", "Კ", "Ლ", "Მ", "Ნ", "Ო", "Პ", "Ჟ",
    "Რ", "Ს", "Ტ", "Უ", "Ფ", "Ქ", "Ღ", "Ყ", "Შ", "Ჩ", "Ც", "Ძ", "Წ", "Ჭ", "Ხ", "Ჯ", "Ჰ", "Ჱ",
    "Ჲ", "Ჳ", "Ჴ", "Ჵ", "Ჶ", "Ჷ", "Ჸ", "Ჹ", "Ჺ", "Ჽ", "Ჾ", "Ჿ", "ᶀ", "ᶁ", "ᶂ", "ᶃ", "ᶄ", "ᶅ",
    "ᶆ", "ᶇ", "ᶈ", "ᶉ", "ᶊ", "ᶋ", "ᶌ", "ᶍ", "ᶎ", "ᶏ", "ᶐ", "ᶑ", "ᶒ", "ᶓ", "ᶔ", "ᶕ", "ᶖ", "ᶗ",
    "ᶘ", "ᶙ", "ᶚ", "Ẁ", "ẁ", "Ẃ", "ẃ", "Ẅ", "ẅ", "Ẇ", "ẇ", "Ẉ", "ẉ", "Ẋ", "ẋ", "Ẍ", "ẍ", "Ẏ",
    "ẏ", "Ẑ", "ẑ", "Ẓ", "ẓ", "Ẕ", "ẕ", "ẖ", "ẗ", "ẘ", "ẙ", "ẚ", "ẛ", "ẜ", "ẝ", "ẞ", "ẟ", "Ạ",
    "ạ", "Ả", "ả", "Ấ", "ấ", "Ầ", "ầ", "Ẩ", "ẩ", "Ẫ", "ẫ", "Ậ", "ậ", "Ắ", "ắ", "Ằ", "ằ", "Ẳ",
    "ẳ", "Ẵ", "ẵ", "Ặ", "ặ", "Ẹ", "ẹ", "Ẻ", "ẻ", "Ẽ", "ẽ", "Ế", "ế", "Ề", "ề", "Ể", "ể", "Ễ",
    "ễ", "Ệ", "ệ", "Ỉ", "ỉ", "Ị", "ị", "Ọ", "ọ", "Ỏ", "ỏ", "Ố", "ố", "Ồ", "ồ", "Ổ", "ổ", "Ỗ",
    "ỗ", "Ộ", "ộ", "Ớ", "ớ", "Ờ", "ờ", "Ở", "ở", "Ỡ", "ỡ", "Ợ", "ợ", "Ụ", "ụ", "Ủ", "ủ", "Ứ",
    "ứ", "Ừ", "ừ", "Ử", "ử", "Ữ", "ữ", "Ự", "ự", "Ỳ", "ỳ", "Ỵ", "ỵ", "Ỷ", "ỷ", "Ỹ", "ỹ", "Ỻ",
    "ỻ", "Ỽ", "ỽ", "Ỿ", "ỿ", "ᾀ", "ᾁ", "ᾂ", "ᾃ", "ᾄ", "ᾅ", "ᾆ", "ᾇ", "ᾈ", "ᾉ", "ᾊ", "ᾋ", "ᾌ",
    "ᾍ", "ᾎ", "ᾏ", "ᾐ", "ᾑ", "ᾒ", "ᾓ", "ᾔ", "ᾕ", "ᾖ", "ᾗ", "ᾘ", "ᾙ", "ᾚ", "ᾛ", "ᾜ", "ᾝ", "ᾞ",
    "ᾟ", "ᾠ", "ᾡ", "ᾢ", "ᾣ", "ᾤ", "ᾥ", "ᾦ", "ᾧ", "ᾨ", "ᾩ", "ᾪ", "ᾫ", "ᾬ", "ᾭ", "ᾮ", "ᾯ", "ᾰ",
    "ᾱ", "ᾲ", "ᾳ", "ᾴ", "ᾶ", "ᾷ", "Ᾰ", "Ᾱ", "Ὰ", "Ά", "ᾼ", "ι", "ῂ", "ῃ", "ῄ", "ῆ", "ῇ", "Ὲ",
    "Έ", "Ὴ", "Ή", "ῌ", "ῐ", "ῑ", "ῒ", "ΐ", "ῖ", "ῗ", "Ῐ", "Ῑ", "Ὶ", "Ί", "ῠ", "ῡ", "ῢ", "ΰ",
    "ῤ", "ῥ", "ῦ", "ῧ", "Ῠ", "Ῡ", "Ὺ", "Ύ", "Ῥ", "ῲ", "ῳ", "ῴ", "ῶ", "ῷ", "Ὸ", "Ό", "Ὼ", "Ώ",
    "ῼ", "Ↄ", "ↄ", "Ⓐ", "Ⓑ", "Ⓒ", "Ⓓ", "Ⓔ", "Ⓕ", "Ⓖ", "Ⓗ", "Ⓘ", "Ⓙ", "Ⓚ", "Ⓛ", "Ⓜ", "Ⓝ", "Ⓞ",
    "Ⓟ", "Ⓠ", "Ⓡ", "Ⓢ", "Ⓣ", "Ⓤ", "Ⓥ", "Ⓦ", "Ⓧ", "Ⓨ", "Ⓩ", "ⓐ", "ⓑ", "ⓒ", "ⓓ", "ⓔ", "ⓕ", "ⓖ",
    "ⓗ", "ⓘ", "ⓙ", "ⓚ", "ⓛ", "ⓜ", "ⓝ", "ⓞ", "ⓟ", "ⓠ", "ⓡ", "ⓢ", "ⓣ", "ⓤ", "ⓥ", "ⓦ", "ⓧ", "ⓨ",
    "ⓩ", "Ⲁ", "ⲁ", "Ⲃ", "ⲃ", "Ⲅ", "ⲅ", "Ⲇ", "ⲇ", "Ⲉ", "ⲉ", "Ⲋ", "ⲋ", "Ⲍ", "ⲍ", "Ⲏ", "ⲏ", "Ⲑ",
    "ⲑ", "Ⲓ", "ⲓ", "Ⲕ", "ⲕ", "Ⲗ", "ⲗ", "Ⲙ", "ⲙ", "Ⲛ", "ⲛ", "Ⲝ", "ⲝ", "Ⲟ", "ⲟ", "Ⲡ", "ⲡ", "Ⲣ",
    "ⲣ", "Ⲥ", "ⲥ", "Ⲧ", "ⲧ", "Ⲩ", "ⲩ", "Ⲫ", "ⲫ", "Ⲭ", "ⲭ", "Ⲯ", "ⲯ", "Ⲱ", "ⲱ", "Ⲳ", "ⲳ", "Ⲵ",
    "ⲵ", "Ⲷ", "ⲷ", "Ⲹ", "ⲹ", "Ⲻ", "ⲻ", "Ⲽ", "ⲽ", "Ⲿ", "ⲿ", "Ⳁ", "ⳁ", "Ⳃ", "ⳃ", "Ⳅ", "ⳅ", "Ⳇ",
    "ⳇ", "Ⳉ", "ⳉ", "Ⳋ", "ⳋ", "Ⳍ", "ⳍ", "Ⳏ", "ⳏ", "Ⳑ", "ⳑ", "Ⳓ", "ⳓ", "Ⳕ", "ⳕ", "Ⳗ", "ⳗ", "Ⳙ",
    "ⳙ", "Ⳛ", "ⳛ", "Ⳝ", "ⳝ", "Ⳟ", "ⳟ", "Ⳡ", "ⳡ", "Ⳣ", "ⳣ", "ⳤ", "Ⳬ", "ⳬ", "Ⳮ", "ⳮ", "Ⳳ", "ⳳ",
    "Ꚁ", "ꚁ", "Ꚃ", "ꚃ", "Ꚅ", "ꚅ", "Ꚇ", "ꚇ", "Ꚉ", "ꚉ", "Ꚋ", "ꚋ", "Ꚍ", "ꚍ", "Ꚏ", "ꚏ", "Ꚑ", "ꚑ",
    "Ꚓ", "ꚓ", "Ꚕ", "ꚕ", "Ꚗ", "ꚗ", "Ꚙ", "ꚙ", "Ꚛ", "ꚛ", "Ꞁ", "ꞁ", "Ꞃ", "ꞃ", "Ꞅ", "ꞅ", "Ꞇ", "ꞇ",
    "Ꞌ", "ꞌ", "Ɥ", "ꞎ", "Ꞑ", "ꞑ", "Ꞓ", "ꞓ", "ꞔ", "ꞕ", "Ꞗ", "ꞗ", "Ꞙ", "ꞙ", "Ꞛ", "ꞛ", "Ꞝ", "ꞝ",
    "Ꞟ", "ꞟ", "Ꞡ", "ꞡ", "Ꞣ", "ꞣ", "Ꞥ", "ꞥ", "Ꞧ", "ꞧ", "Ꞩ", "ꞩ", "Ɦ", "Ɜ", "Ɡ", "Ɬ", "Ɪ", "ꞯ",
    "Ʞ", "Ʇ", "Ʝ", "Ꭓ", "Ꞵ", "ꞵ", "Ꞷ", "ꞷ", "Ꞹ", "ꞹ", "Ꞻ", "ꞻ", "Ꞽ", "ꞽ", "Ꞿ", "ꞿ", "Ꟁ", "ꟁ",
    "Ꟃ", "ꟃ", "Ꞔ", "Ʂ", "Ᶎ", "Ꟈ", "ꟈ", "Ꟊ", "ꟊ", "Ɤ", "Ꟍ", "ꟍ", "꟎", "꟏", "Ꟑ", "ꟑ", "꟒", "ꟓ",
    "꟔", "ꟕ", "Ꟗ", "ꟗ", "Ꟙ", "ꟙ", "Ꟛ", "ꟛ", "Ƛ", "Ꟶ", "ꟶ", "ꟺ", "ꮀ", "ꮁ", "ꮂ", "ꮃ", "ꮄ", "ꮅ",
    "ꮆ", "ꮇ", "ꮈ", "ꮉ", "ꮊ", "ꮋ", "ꮌ", "ꮍ", "ꮎ", "ꮏ", "ꮐ", "ꮑ", "ꮒ", "ꮓ", "ꮔ", "ꮕ", "ꮖ", "ꮗ",
    "ꮘ", "ꮙ", "ꮚ", "ꮛ", "ꮜ", "ꮝ", "ꮞ", "ꮟ", "ꮠ", "ꮡ", "ꮢ", "ꮣ", "ꮤ", "ꮥ", "ꮦ", "ꮧ", "ꮨ", "ꮩ",
    "ꮪ", "ꮫ", "ꮬ", "ꮭ", "ꮮ", "ꮯ", "ꮰ", "ꮱ", "ꮲ", "ꮳ", "ꮴ", "ꮵ", "ꮶ", "ꮷ", "ꮸ", "ꮹ", "ꮺ", "ꮻ",
    "ꮼ", "ꮽ", "ꮾ", "ꮿ" }

\* the characters with the property Case_Ignorable that are not Cased
CaseIgnorableChars == {
    "'", ".", ":", "^", "¨", "­", "¯", "´", "·", "¸", "ʰ", "ʱ", "ʲ", "ʳ", "ʴ", "ʵ", "ʶ", "ʷ",
    "ʸ", "ʹ", "ʺ", "ʻ", "ʼ", "ʽ", "ʾ", "ʿ", "ˀ", "ˁ", "˂", "˃", "˄", "˅", "ˆ", "ˇ", "ˈ", "ˉ",
    "ˊ", "ˋ", "ˌ", "ˍ", "ˎ", "ˏ", "ː", "ˑ", "˒", "˓", "˔", "˕", "˖", "˗", "˘", "˙", "˚", "˛",
    "˜", "˝", "˞", "˟", "ˠ", "ˡ", "ˢ", "ˣ", "ˤ", "˥", "˦", "˧", "˨", "˩", "˪", "˫", "ˬ", "˭",
    "ˮ", "˯", "˰", "˱", "˲", "˳", "˴", "˵", "˶", "˷", "˸", "˹", "˺", "˻", "˼", "˽", "˾", "˿",
    "΄", "΅", "·", "҃", "҄", "҅", "҆", "҇", "҈", "҉", "֑", "֒", "֓", "֔", "֕", "֖", "֗", "֘",
    "֙", "֚", "֛", "֜", "֝", "֞", "֟", "֠", "֡", "֢", "֣", "֤", "֥", "֦", "֧", "֨", "֩", "֪",
    "֫", "֬", "֭", "֮", "֯", "ְ", "ֱ", "ֲ", "ֳ", "ִ", "ֵ", "ֶ", "ַ", "ָ", "ֹ", "ֺ", "ֻ", "ּ",
    "ֽ", "ֿ", "ׁ", "ׂ", "ׄ", "ׅ", "ׇ", "״", "ۖ", "ۗ", "ۘ", "ۙ", "ۚ", "ۛ", "ۜ", "۝", "۟", "۠",
    "ۡ", "ۢ", "ۣ", "ۤ", "ۥ", "ۦ", "ۧ", "ۨ", "۪", "۫", "۬", "ۭ", "ަ", "ާ", "ި", "ީ", "ު", "ޫ",
    "ެ", "ޭ", "ޮ", "ޯ", "ް", "߫", "߬", "߭", "߮", "߯", "߰", "߱", "߲", "߳", "ߴ", "ߵ", "ߺ", "߽",
    "࢈", "࢐", "࢑", "ࢗ", "࢘", "࢙", "࢚", "࢛", "࢜", "࢝", "࢞", "࢟", "ࣉ", "࣊", "࣋", "࣌", "࣍", "࣎",
    "࣏", "࣐", "࣑", "࣒", "࣓", "ࣔ", "ࣕ", "ࣖ", "ࣗ", "ࣘ", "ࣙ", "ࣚ", "ࣛ", "ࣜ", "ࣝ", "ࣞ", "ࣟ", "࣠",
    "࣡", "࣢", "ࣣ", "ࣤ", "ࣥ", "ࣦ", "ࣧ", "ࣨ", "ࣩ", "࣪", "࣫", "࣬", "࣭", "࣮", "࣯", "ࣰ", "ࣱ", "ࣲ",
    "ࣳ", "ࣴ", "ࣵ", "ࣶ", "ࣷ", "ࣸ", "ࣹ", "ࣺ", "ࣻ", "ࣼ", "ࣽ", "ࣾ", "ࣿ", "ঁ", "়", "ু", "ূ", "ৃ",
    "ৄ", "্", "ৢ", "ৣ", "৾", "ઁ", "ં", "઼", "ુ", "ૂ", "ૃ", "ૄ", "ૅ", "ે", "ૈ", "્", "ૢ", "ૣ",
    "ૺ", "ૻ", "ૼ", "૽", "૾", "૿", "ஂ", "ீ", "்", "ಁ", "಼", "ಿ", "ೆ", "ೌ", "್", "ೢ", "ೣ", "ඁ",
    "්", "ි", "ී", "ු", "ූ", "ັ", "ິ", "ີ", "ຶ", "ື", "ຸ", "ູ", "຺", "ົ", "ຼ", "ໆ", "່", "້",
    "໊", "໋", "໌", "ໍ", "໎", "ྀ", "ཱྀ", "ྂ", "ྃ", "྄", "྆", "྇", "ྍ", "ྎ", "ྏ", "ྐ", "ྑ", "ྒ",
    "ྒྷ", "ྔ", "ྕ", "ྖ", "ྗ", "ྙ", "ྚ", "ྛ", "ྜ", "ྜྷ", "ྞ", "ྟ", "ྠ", "ྡ", "ྡྷ", "ྣ", "ྤ", "ྥ",
    "ྦ", "ྦྷ", "ྨ", "ྩ", "ྪ", "ྫ", "ྫྷ", "ྭ", "ྮ", "ྯ", "ྰ", "ྱ", "ྲ", "ླ", "ྴ", "ྵ", "ྶ", "ྷ",
    "ྸ", "ྐྵ", "ྺ", "ྻ", "ྼ", "࿆", "ႂ", "ႅ", "ႆ", "ႍ", "ႝ", "ჼ", "឴", "឵", "ិ", "ី", "ឹ", "ឺ",
    "ុ", "ូ", "ួ", "ំ", "៉", "៊", "់", "៌", "៍", "៎", "៏", "័", "៑", "្", "៓", "ៗ", "៝", "ᢅ",
    "ᢆ", "ᢩ", "ᪧ", "᪰", "᪱", "᪲", "᪳", "᪴", "᪵", "᪶", "᪷", "᪸", "᪹", "᪺", "᪻", "᪼", "᪽", "᪾",
    "ᪿ", "ᫀ", "᫁", "᫂", "᫃", "᫄", "᫅", "᫆", "᫇", "᫈", "᫉", "᫊", "᫋", "ᫌ", "ᫍ", "ᫎ", "᫏", "᫐",
    "᫑", "᫒", "᫓", "᫔", "᫕", "᫖", "᫗", "᫘", "᫙", "᫚", "᫛", "᫜", "᫝", "᫠", "᫡", "᫢", "᫣", "᫤",
    "᫥", "᫦", "᫧", "᫨", "᫩", "᫪", "᫫", "ᮀ", "ᮁ", "ᮢ", "ᮣ", "ᮤ", "ᮥ", "ᮨ", "ᮩ", "᮫", "ᮬ", "ᮭ",
    "᯦", "ᯨ", "ᯩ", "ᯭ", "ᯯ", "ᯰ", "ᯱ", "᳐", "᳑", "᳒", "᳔", "᳕", "᳖", "᳗", "᳘", "᳙", "᳚", "᳛",
    "᳜", "᳝", "᳞", "᳟", "᳠", "᳢", "᳣", "᳤", "᳥", "᳦", "᳧", "᳨", "᳭", "᳴", "᳸", "᳹", "ᶛ", "ᶜ",
    "ᶝ", "ᶞ", "ᶟ", "ᶠ", "ᶡ", "ᶢ", "ᶣ", "ᶤ", "ᶥ", "ᶦ", "ᶧ", "ᶨ", "ᶩ", "ᶪ", "ᶫ", "ᶬ", "ᶭ", "ᶮ",
    "ᶯ", "ᶰ", "ᶱ", "ᶲ", "ᶳ", "ᶴ", "ᶵ", "ᶶ", "ᶷ", "ᶸ", "ᶹ", "ᶺ", "ᶻ", "ᶼ", "ᶽ", "ᶾ", "ᶿ", "᷀",
    "᷁", "᷂", "᷃", "᷄", "᷅", "᷆", "᷇", "᷈", "᷉", "᷊", "᷋", "᷌", "᷍", "᷎", "᷏", "᷐", "᷑", "᷒",
    "ᷓ", "ᷔ", "ᷕ", "ᷖ", "ᷗ", "ᷘ", "ᷙ", "ᷚ", "ᷛ", "ᷜ", "ᷝ", "ᷞ", "ᷟ", "ᷠ", "ᷡ", "ᷢ", "ᷣ", "ᷤ",
    "ᷥ", "ᷦ", "ᷧ", "ᷨ", "ᷩ", "ᷪ", "ᷫ", "ᷬ", "ᷭ", "ᷮ", "ᷯ", "ᷰ", "ᷱ", "ᷲ", "ᷳ", "ᷴ", "᷵", "᷶",
    "᷷", "᷸", "᷹", "᷺", "᷻", "᷼", "᷽", "᷾", "᷿", "᾽", "᾿", "῀", "῁", "῍", "῎", "῏", "῝", "῞",
    "῟", "῭", "΅", "`", "´", "῾", "ₐ", "ₑ", "ₒ", "ₓ", "ₔ", "ₕ", "ₖ", "ₗ", "ₘ", "ₙ", "ₚ", "ₛ",
    "ₜ", "⃐", "⃑", "⃒", "⃓", "⃔", "⃕", "⃖", "⃗", "⃘", "⃙", "⃚", "⃛", "⃜", "⃝", "⃞", "⃟", "⃠",
    "⃡", "⃢", "⃣", "⃤", "⃥", "⃦", "⃧", "⃨", "⃩", "⃪", "⃫", "⃬", "⃭", "⃮", "⃯", "⃰", "⳯", "⳰",
    "⳱", "ⷠ", "ⷡ", "ⷢ", "ⷣ", "ⷤ", "ⷥ", "ⷦ", "ⷧ", "ⷨ", "ⷩ", "ⷪ", "ⷫ", "ⷬ", "ⷭ", "ⷮ", "ⷯ", "ⷰ",
    "ⷱ", "ⷲ", "ⷳ", "ⷴ", "ⷵ", "ⷶ", "ⷷ", "ⷸ", "ⷹ", "ⷺ", "ⷻ", "ⷼ", "ⷽ", "ⷾ", "ⷿ", "゙", "゚", "゛",
    "゜", "ゝ", "ゞ", "ー", "ヽ", "ヾ", "ꓸ", "ꓹ", "ꓺ", "ꓻ", "ꓼ", "ꓽ", "ꚜ", "ꚝ", "ꚞ", "ꚟ", "꛰", "꛱",
    "ꞈ", "꞉", "꞊", "꟱", "ꟲ", "ꟳ", "ꟴ", "ꟸ", "ꟹ", "꣄", "ꣅ", "꣠", "꣡", "꣢", "꣣", "꣤", "꣥", "꣦",
    "꣧", "꣨", "꣩", "꣪", "꣫", "꣬", "꣭", "꣮", "꣯", "꣰", "꣱", "ꣿ", "ꦀ", "ꦁ", "ꦂ", "꦳", "ꦶ", "ꦷ",
    "ꦸ", "ꦹ", "ꦼ", "ꦽ", "ꧏ", "ꧥ", "ꧦ", "ꪰ", "ꪲ", "ꪳ", "ꪴ", "ꪷ", "ꪸ", "ꪾ", "꪿", "꫁", "ꫝ", "ꫬ",
    "ꫭ", "ꫳ", "ꫴ", "꫶", "ꯥ", "ꯨ", "꯭", "﮲", "﮳", "﮴", "﮵", "﮶", "﮷", "﮸", "﮹", "﮺", "﮻", "﮼",
    "﮽", "﮾", "﮿", "﯀", "﯁", "﯂", "﻿", "ﾞ", "ﾟ", "￣", "￹", "￺", "￻" }

UpperSet == {UpperChars[i] : i \in DOMAIN UpperChars}

\* the lower-case form of one character, context aside
toLowerCaseChar(ch) ==
    IF ch = "Σ" THEN "σ"
    ELSE IF ch \in UpperSet
    THEN LowerChars[CHOOSE i \in DOMAIN UpperChars : UpperChars[i] = ch]
    ELSE ch

RECURSIVE casedBefore(_, _)
\* a cased letter stands before position i + 1, case-ignorable characters aside
casedBefore(cs, i) ==
    IF i < 1 THEN FALSE
    ELSE IF cs[i] \in CasedChars THEN TRUE
    ELSE IF cs[i] \in CaseIgnorableChars THEN casedBefore(cs, i - 1)
    ELSE FALSE

RECURSIVE casedAfter(_, _)
\* a cased letter stands after position i - 1, case-ignorable characters aside
casedAfter(cs, i) ==
    IF i > Len(cs) THEN FALSE
    ELSE IF cs[i] \in CasedChars THEN TRUE
    ELSE IF cs[i] \in CaseIgnorableChars THEN casedAfter(cs, i + 1)
    ELSE FALSE

\* the condition Final_Sigma of the Unicode special casing
finalSigma(cs, i) == casedBefore(cs, i - 1) /\ ~casedAfter(cs, i + 1)

\* String.prototype.toLowerCase
toLowerCase(cs) ==
    [i \in DOMAIN cs |->
        IF cs[i] = "Σ" /\ finalSigma(cs, i) THEN "ς" ELSE toLowerCaseChar(cs[i])]

\* as replace("_", "-") would: only the first underscore
replaceFirstUnderscore(cs) ==
    [i \in DOMAIN cs |->
        IF cs[i] = "_" /\ \A j \in 1..(i-1) : cs[j] # "_" THEN "-" ELSE cs[i]]

\* String.prototype.replace(/_/g, "-")
replaceUnderscores(cs) == [i \in DOMAIN cs |-> IF cs[i] = "_" THEN "-" ELSE cs[i]]

RECURSIVE Implode(_)
\* the string made of the characters cs
Implode(cs) == IF cs = <<>> THEN "" ELSE Head(cs) \o Implode(Tail(cs))

\* the white space and line terminators that trim strips: space, tab, line
\* feed, carriage return, form feed, line tabulation (U+000B), no-break space
\* (U+00A0), ogham space mark (U+1680) and the byte order mark (U+FEFF).  The
\* remaining ones (U+2000 to U+200A, U+2028, U+2029, U+202F, U+205F, U+3000)
\* cannot be written in a string of this language and so are no characters of
\* the model.
WhiteSpace == {" ", "\t", "\n", "\r", "\f", "", " ", " ", "﻿"}

IsSpace(ch) == ch \in WhiteSpace

RECURSIVE trimStart(_)
trimStart(cs) == IF cs # <<>> /\ IsSpace(Head(cs)) THEN trimStart(Tail(cs)) ELSE cs

RECURSIVE trimEnd(_)
trimEnd(cs) ==
    IF cs # <<>> /\ IsSpace(cs[Len(cs)]) THEN trimEnd(SubSeq(cs, 1, Len(cs) - 1)) ELSE cs

\* String.prototype.trim
trim(cs) == trimEnd(trimStart(cs))

(***************************************************************************)
(* The coercions of a value that JSON can give: ToPrimitive, ToString and  *)
(* ToNumber as far as a comparison with 0 needs it.                        *)
(***************************************************************************)
\* the characters of a string
chars(v) == IF IsTxt(v) THEN v.c ELSE [i \in 1..Len(v.s) |-> SubSeq(v.s, i, i)]

RECURSIVE coercionThrows(_)
\* ToPrimitive throws a TypeError: an object with a property toString of its
\* own has no callable toString (the inherited valueOf returns the object);
\* an array is joined, and so throws when an element does
coercionThrows(v) ==
    IF IsObj(v) THEN "toString" \in DOMAIN v.o
    ELSE IF IsArr(v)
         THEN \E i \in DOMAIN v.a : v.a[i] \notin {Null, Undef} /\ coercionThrows(v.a[i])
    ELSE FALSE

RECURSIVE toStringChars(_)
RECURSIVE joined(_)
\* Array.prototype.join(","): null and undefined elements give nothing
joined(q) ==
    IF q = <<>> THEN <<>>
    ELSE (IF Head(q) \in {Null, Undef} THEN <<>> ELSE toStringChars(Head(q)))
         \o (IF Len(q) > 1 THEN <<",">> \o joined(Tail(q)) ELSE <<>>)

\* ToString, as characters (integers are the numbers of the model)
toStringChars(v) ==
    IF IsTxt(v) \/ IsStr(v) THEN chars(v)
    ELSE IF DOMAIN v = {"n"} THEN chars(Str(ToString(v.n)))
    ELSE IF DOMAIN v = {"b"} THEN chars(Str(IF v.b THEN "true" ELSE "false"))
    ELSE IF v = Null THEN chars(Str("null"))
    ELSE IF v = Undef THEN chars(Str("undefined"))
    ELSE IF IsArr(v) THEN joined(v.a)
    ELSE chars(Str("[object Object]"))

Digits == <<"0", "1", "2", "3", "4", "5", "6", "7", "8", "9">>

digitValue(ch) == (CHOOSE i \in DOMAIN Digits : Digits[i] = ch) - 1

allIn(q, S) == \A i \in DOMAIN q : q[i] \in S

DecDigits == {Digits[i] : i \in DOMAIN Digits}
HexDigits == DecDigits \cup {"a", "b", "c", "d", "e", "f", "A", "B", "C", "D", "E", "F"}
OctDigits == {"0", "1", "2", "3", "4", "5", "6", "7"}
BinDigits == {"0", "1"}

someNonZero(q) == \E i \in DOMAIN q : q[i] # "0"

\* the position of the first character of q that is in S, 0 when there is none
firstIn(q, S) ==
    IF \E i \in DOMAIN q : q[i] \in S
    THEN CHOOSE i \in DOMAIN q : q[i] \in S /\ \A j \in 1..(i - 1) : q[j] \notin S
    ELSE 0

RECURSIVE digitsValue(_, _)
\* the number written by the digits q after acc
digitsValue(q, acc) ==
    IF q = <<>> THEN acc ELSE digitsValue(Tail(q), acc * 10 + digitValue(Head(q)))

\* the digits q without their leading zeros
significant(q) ==
    IF firstIn(q, DecDigits \ {"0"}) = 0 THEN <<>>
    ELSE SubSeq(q, firstIn(q, DecDigits \ {"0"}), Len(q))

\* an exponent of this many significant digits is at least 10^9, more than the
\* 2^29 characters a string can have and so more than any number of digits
\* the mantissa can weigh against it: its sign alone decides
DecidingDigits == 10

\* the significant digits of 2^-1075 = 0.247...e-323, half of the smallest
\* number above 0: a literal up to it is read as 0
HalfMinDigits ==
    "24703282292062327208828439643411068618252990130716238221279284125033775363510437593264991818081799618989828234772285886546332835517796989819938739800539093906315035659515570226392290858392449105184435931802849936536152500319370457678249219365623669863658480757001585769269903706311928279558551332927834338409351978015531246597263579574622766465272827220056374006485499977096599470454020828166226237857393450736339007967761930577506740176324673600968951340535537458516661134223766678604162159680461914467291840300530057530849048765391711386591646239524912623653881879636239373280423891018672348497668235089863388587925628302755995657524455507255189313690836254779186948667994968324049705821028513185451396213837722826145437693412532098591327667236328125"

RECURSIVE upToHalfMin(_, _)
\* the digits sig, read as d.ddd, are at most HalfMinDigits from position i on
upToHalfMin(sig, i) ==
    IF i > Len(sig) /\ i > Len(HalfMinDigits) THEN TRUE
    ELSE LET a == IF i <= Len(sig) THEN digitValue(sig[i]) ELSE 0
             h == IF i <= Len(HalfMinDigits)
                  THEN digitValue(SubSeq(HalfMinDigits, i, i)) ELSE 0
         IN  IF a < h THEN TRUE
             ELSE IF a > h THEN FALSE
             ELSE upToHalfMin(sig, i + 1)

\* the decimal literal u (no sign) is well formed and reads as a number above 0
positiveDecimal(u) ==
    LET e        == firstIn(u, {"e", "E"})
        mantissa == IF e = 0 THEN u ELSE SubSeq(u, 1, e - 1)
        expo     == IF e = 0 THEN <<>> ELSE SubSeq(u, e + 1, Len(u))
        signed   == expo # <<>> /\ Head(expo) \in {"+", "-"}
        expDigits == IF signed THEN Tail(expo) ELSE expo
        point    == firstIn(mantissa, {"."})
        int      == IF point = 0 THEN mantissa ELSE SubSeq(mantissa, 1, point - 1)
        frac     == IF point = 0 THEN <<>> ELSE SubSeq(mantissa, point + 1, Len(mantissa))
        digits   == int \o frac
        first    == firstIn(digits, DecDigits \ {"0"})
        negative == signed /\ Head(expo) = "-"
        deciding == Len(significant(expDigits)) >= DecidingDigits
        exponent == IF negative THEN 0 - digitsValue(significant(expDigits), 0)
                    ELSE digitsValue(significant(expDigits), 0)
        magnitude == (Len(int) - first) + exponent
    IN  /\ allIn(int, DecDigits) /\ allIn(frac, DecDigits) /\ digits # <<>>
        /\ e # 0 => (expDigits # <<>> /\ allIn(expDigits, DecDigits))
        /\ first # 0
        /\ IF deciding THEN ~negative
           ELSE /\ magnitude + 324 >= 0
                /\ magnitude + 324 = 0 =>
                       ~upToHalfMin(SubSeq(digits, first, Len(digits)), 1)

\* StringToNumber(cs) > 0
positiveLiteral(cs) ==
    LET t == trim(cs)
        u == IF t # <<>> /\ Head(t) = "+" THEN Tail(t) ELSE t
        radix(marks, S) ==
            /\ Len(t) >= 3 /\ t[1] = "0" /\ t[2] \in marks
            /\ allIn(SubSeq(t, 3, Len(t)), S) /\ someNonZero(SubSeq(t, 3, Len(t)))
    IN  \/ radix({"x", "X"}, HexDigits)
        \/ radix({"o", "O"}, OctDigits)
        \/ radix({"b", "B"}, BinDigits)
        \/ u = <<"I", "n", "f", "i", "n", "i", "t", "y">>
        \/ u # <<>> /\ positiveDecimal(u)

\* v > 0 for a v whose coercion does not throw
positive(v) ==
    IF DOMAIN v = {"n"} THEN v.n > 0
    ELSE IF DOMAIN v = {"b"} THEN v.b
    ELSE IF IsTxt(v) \/ IsStr(v) \/ IsArr(v) THEN positiveLiteral(toStringChars(v))
    ELSE FALSE

(***************************************************************************)
(* genDefaultManifest and the rules of convertToForgemanifest, in the      *)
(* order the code applies them.  m is the manifest, c the descriptor, t    *)
(* the platform type.                                                      *)
(***************************************************************************)
\* the TypeError of reading a property of null or undefined
TypeError == [threw |-> "TypeError"]

\* a skeleton that already states the authentication
genDefaultManifestJwt(c) ==
    Obj([app |-> Obj([id |-> Str("ari:cloud:ecosystem::app/invalid-run-forge-register"),
                      connect |-> Obj([key |-> Prop(c, "key"), authentication |-> Str("jwt"),
                                       remote |-> Str("connect")]),
                      runtime |-> Obj([name |-> Str("nodejs20.x")])]),
         remotes |-> Arr(<<Obj([key |-> Str("connect"), baseUrl |-> Prop(c, "baseUrl")])>>),
         connectModules |-> Obj(EmptyMap),
         permissions |-> Obj([scopes |-> Arr(<<>>)])])

\* lines 122-145; connect.key (line 127) throws when connect is null or undefined
genDefaultManifest(c) ==
    IF c \in {Null, Undef} THEN TypeError ELSE
    Obj([app |-> Obj([id |-> Str("ari:cloud:ecosystem::app/invalid-run-forge-register"),
                      connect |-> Obj([key |-> Prop(c, "key"), remote |-> Str("connect")]),
                      runtime |-> Obj([name |-> Str("nodejs20.x")])]),
         remotes |-> Arr(<<Obj([key |-> Str("connect"), baseUrl |-> Prop(c, "baseUrl")])>>),
         connectModules |-> Obj(EmptyMap),
         permissions |-> Obj([scopes |-> Arr(<<>>)])])

\* `${type}:${moduleType}`
moduleName(t, moduleType) == t \o ":" \o moduleType

\* { key: "lifecycle-events", ...entries other than dare-migration }
lifecycleEntry(lifecycle) ==
    LET kept == (DOMAIN entries(lifecycle)) \ {"dare-migration"}
    IN  Obj([k \in {"key"} \cup kept |->
                IF k \in kept THEN entries(lifecycle)[k] ELSE Str("lifecycle-events")])

\* lines 180-198
addLifecycle(m, c, t) ==
    IF Truthy(Prop(c, "lifecycle"))
    THEN Put3(Put2(m, "connectModules", moduleName(t, "lifecycle"),
                   Arr(<<lifecycleEntry(Prop(c, "lifecycle"))>>)),
              "app", "connect", "authentication", Str("jwt"))
    ELSE m

\* lines 200-203
addLicensing(m, c) ==
    IF Truthy(Prop(c, "enableLicensing"))
    THEN Put2(m, "app", "licensing", Obj([enabled |-> Bool(TRUE)]))
    ELSE m

\* Array.isArray(moduleContent) ? moduleContent : [moduleContent]
toArray(moduleContent) == IF IsArr(moduleContent) THEN moduleContent ELSE Arr(<<moduleContent>>)

\* the loop without its isPresent test
copiedTypesAll(modules) == DOMAIN entries(modules)

\* the module types the loop of lines 207-216 copies
copiedTypes(modules) == {mt \in DOMAIN entries(modules) : isPresent(entries(modules)[mt])}

\* lines 205-222
addModules(m, c, t) ==
    IF Truthy(Prop(c, "modules"))
    THEN LET modules == Prop(c, "modules")
             old     == m.o.connectModules.o
             added   == {moduleName(t, mt) : mt \in copiedTypes(modules)}
             typeOf(k) == CHOOSE mt \in copiedTypes(modules) : moduleName(t, mt) = k
         IN  Put(m, "connectModules",
                 Obj([k \in (DOMAIN old) \cup added |->
                        IF k \in added THEN toArray(entries(modules)[typeOf(k)]) ELSE old[k]]))
    ELSE m

\* lines 224-237
addTranslations(m, c, t) ==
    LET paths == Prop(Prop(c, "translations"), "paths")
    IN  IF Truthy(paths) /\ DOMAIN entries(paths) # {}
        THEN Put2(m, "connectModules", moduleName(t, "translations"),
                  Arr(<<Obj([paths |-> paths, key |-> Str("connect-translations")])>>))
        ELSE m

\* lines 239-251
addCloudAppMigration(m, c, t) ==
    LET path == Prop(Prop(c, "cloudAppMigration"), "migrationWebhookPath")
    IN  IF Truthy(path)
        THEN Put2(m, "connectModules", moduleName(t, "cloudAppMigration"),
                  Arr(<<Obj([migrationWebhookPath |-> path, key |-> Str("app-migration")])>>))
        ELSE m

\* line 95: the block-list is empty
UNSUPPORTED_MODULES == {}

RECURSIVE SetToSeq(_)
\* the members of a set in some fixed order (objects are modelled without key order)
SetToSeq(S) == IF S = {} THEN <<>> ELSE LET x == CHOOSE y \in S : TRUE
                                         IN  <<x>> \o SetToSeq(S \ {x})

\* lines 255-263; Object.keys(connect.modules) throws when modules is
\* undefined or null
unsupportedThrows(c) == Prop(c, "modules") \in {Undef, Null}

unsupportedWarnings(c) ==
    LET found == SetToSeq((DOMAIN entries(Prop(c, "modules"))) \cap UNSUPPORTED_MODULES)
    IN  [i \in DOMAIN found |-> found[i] \o " is not currently supported in a Forge manifest."]

\* `webhook-${index + 1}` for the 0-based index; i is the 1-based position
webhookKey(i) == "webhook-" \o ToString(i)

\* webhook.key = ... succeeds on an object and on an array (whose elements it
\* leaves as they are) and throws on null, undefined and, the bundle being
\* strict code, on a string, number or boolean
takesKey(webhook) == IsObj(webhook) \/ IsArr(webhook)

\* how many elements forEach visits before the assignment throws
keyedCount(arr) ==
    IF \A i \in DOMAIN arr.a : takesKey(arr.a[i]) THEN Len(arr.a)
    ELSE (CHOOSE i \in DOMAIN arr.a :
              /\ ~takesKey(arr.a[i])
              /\ \A j \in 1..(i - 1) : takesKey(arr.a[j])) - 1

\* the webhooks array with its elements re-keyed (lines 268-272)
keyedWebhooks(arr) ==
    Arr([i \in DOMAIN arr.a |->
           IF i <= keyedCount(arr) /\ IsObj(arr.a[i])
           THEN Put(arr.a[i], "key", Str(webhookKey(i)))
           ELSE arr.a[i]])

\* line 177: the template literal throws on a name that has no string form
nameThrows(c) == coercionThrows(Prop(c, "name"))

\* webhooks && Array.isArray(webhooks)
webhooksAreKeyed(c) ==
    LET webhooks == Prop(Prop(c, "modules"), "webhooks")
    IN  Truthy(webhooks) /\ IsArr(webhooks)

\* the forEach of lines 268-272 throws on an element
webhooksThrow(c) ==
    /\ webhooksAreKeyed(c)
    /\ keyedCount(Prop(Prop(c, "modules"), "webhooks")) < Len(Prop(Prop(c, "modules"), "webhooks").a)

\* lines 265-274
addWebhookKeys(m, c, t) ==
    IF webhooksAreKeyed(c)
    THEN Put2(m, "connectModules", moduleName(t, "webhooks"),
              keyedWebhooks(m.o.connectModules.o[moduleName(t, "webhooks")]))
    ELSE m

\* the webhook objects are shared with the descriptor: the same assignment
\* changes connect.modules.webhooks
descriptorAfterKeys(c) ==
    IF webhooksAreKeyed(c) /\ ~nameThrows(c)
    THEN Put2(c, "modules", "webhooks", keyedWebhooks(Prop(Prop(c, "modules"), "webhooks")))
    ELSE c

\* scope.toLowerCase().replace(/_/g, "-")
forgeScope(scope) == replaceUnderscores(toLowerCase(scope))

\* `${forgeScope}:connect-${type}`
scopeString(scope, t) == Str(Implode(forgeScope(chars(scope))) \o ":connect-" \o t)

\* v.length > 0 throws: the length of an object is a property like any other
lengthThrows(v) == IsObj(v) /\ coercionThrows(Prop(v, "length"))

\* v.length > 0
hasLength(v) ==
    \/ IsArr(v) /\ Len(v.a) > 0
    \/ IsTxt(v) /\ Len(v.c) > 0
    \/ IsStr(v) /\ Len(v.s) > 0
    \/ IsObj(v) /\ ~lengthThrows(v) /\ positive(Prop(v, "length"))

\* line 277
hasScopes(c) == isPresent(Prop(c, "scopes")) /\ hasLength(Prop(c, "scopes"))

\* scope.toLowerCase() is there for a string only
isScope(scope) == IsTxt(scope) \/ IsStr(scope)

\* how many scopes are pushed before forEach or toLowerCase throws: none when
\* scopes is no array, else those before the first element that is no string
pushedCount(scopes) ==
    IF ~IsArr(scopes) THEN 0
    ELSE IF \A i \in DOMAIN scopes.a : isScope(scopes.a[i]) THEN Len(scopes.a)
    ELSE (CHOOSE i \in DOMAIN scopes.a :
              /\ ~isScope(scopes.a[i])
              /\ \A j \in 1..(i - 1) : isScope(scopes.a[j])) - 1

\* lines 277-281 throw
scopesThrow(c) ==
    \/ isPresent(Prop(c, "scopes")) /\ lengthThrows(Prop(c, "scopes"))
    \/ /\ hasScopes(c)
       /\ ~IsArr(Prop(c, "scopes")) \/ pushedCount(Prop(c, "scopes")) < Len(Prop(c, "scopes").a)

\* lines 276-285
addScopes(m, c, t) ==
    LET scopes == Prop(c, "scopes")
    IN  IF hasScopes(c)
        THEN Put2(m, "permissions", "scopes",
                  Arr(m.o.permissions.o.scopes.a \o
                      [i \in 1..pushedCount(scopes) |-> scopeString(scopes.a[i], t)]))
        ELSE m

\* convertToForgemanifest throws before its first await
convertThrows(c) == nameThrows(c) \/ unsupportedThrows(c) \/ webhooksThrow(c) \/ scopesThrow(c)

\* lines 177-285: everything convertToForgemanifest does before its first
\* await, or up to the statement that throws
convertSync(m, c, t) ==
    LET copied == addCloudAppMigration(addTranslations(
                      addModules(addLicensing(addLifecycle(m, c, t), c), c, t), c, t), c, t)
        keyed  == addWebhookKeys(copied, c, t)
    IN  IF nameThrows(c) THEN m
        ELSE IF unsupportedThrows(c) THEN copied
        ELSE IF webhooksThrow(c) THEN keyed
        ELSE addScopes(keyed, c, t)

(***************************************************************************)
(* The output file, js-yaml and deepmerge.  The deepmerge package is not   *)
(* among the sources; merge follows the source the package publishes       *)
(* (version 4), by the names it uses there.                                *)
(***************************************************************************)
NoFile     == [nofile |-> "ENOENT"]
Unreadable == [bad |-> "not yaml"]
Yaml(doc)  == [yaml |-> doc]          \* a file holding the YAML text of doc

\* lines 108-120: the parsed document, or null when reading or parsing throws
loadExistingManifest(file) == IF DOMAIN file = {"yaml"} THEN file.yaml ELSE Null

RECURSIVE yamlDump(_)
\* yaml.dump (line 427): a mapping keeps no key whose value is undefined, and
\* an undefined element of a sequence is written as null
yamlDump(v) ==
    IF IsObj(v)
    THEN LET keys == {k \in DOMAIN v.o : v.o[k] # Undef}
         IN  Obj([k \in keys |-> yamlDump(v.o[k])])
    ELSE IF IsArr(v)
         THEN Arr([i \in DOMAIN v.a |-> IF v.a[i] = Undef THEN Null ELSE yamlDump(v.a[i])])
         ELSE v

\* deepmerge's defaultIsMergeableObject: a non-null object or array
isMergeableObject(v) == IsObj(v) \/ IsArr(v)

\* the property names every object inherits from Object.prototype
InheritedKeys ==
    { "constructor", "hasOwnProperty", "isPrototypeOf", "propertyIsEnumerable",
      "toLocaleString", "toString", "valueOf", "__proto__", "__defineGetter__",
      "__defineSetter__", "__lookupGetter__", "__lookupSetter__" }

\* deepmerge's propertyIsUnsafe: key is in target without being a property of
\* its own (the in of a target that is no object throws, which reads as false)
propertyIsUnsafe(target, key) ==
    IsObj(target) /\ key \in InheritedKeys /\ ~HasProp(target, key)

\* destination[key] = value on a plain object sets no property __proto__
assigned(keys) == keys \ {"__proto__"}

RECURSIVE cloneUnlessOtherwiseSpecified(_)
\* deepmerge's clone: deepmerge(emptyTarget(value), value)
cloneUnlessOtherwiseSpecified(value) ==
    IF IsObj(value)
    THEN Obj([k \in assigned(DOMAIN value.o \ InheritedKeys) |->
                cloneUnlessOtherwiseSpecified(value.o[k])])
    ELSE IF IsArr(value)
         THEN Arr([i \in DOMAIN value.a |-> cloneUnlessOtherwiseSpecified(value.a[i])])
         ELSE value

\* deepmerge's defaultArrayMerge: target.concat(source), each element cloned
arrayMerge(target, source) ==
    Arr([i \in 1..(Len(target.a) + Len(source.a)) |->
           cloneUnlessOtherwiseSpecified((target.a \o source.a)[i])])

RECURSIVE merge(_, _)
\* deepmerge's mergeObject: the keys of the target, then those of the source
\* (Object.keys: the indices of a string, none of a number or a boolean)
mergeObject(target, source) ==
    LET tk == IF IsObj(target) THEN DOMAIN target.o ELSE {}
        sk == {k \in DOMAIN entries(source) : ~propertyIsUnsafe(target, k)}
    IN  Obj([k \in assigned(tk \cup sk) |->
               IF k \in sk
               THEN IF k \in tk /\ isMergeableObject(entries(source)[k])
                    THEN merge(target.o[k], entries(source)[k])
                    ELSE cloneUnlessOtherwiseSpecified(entries(source)[k])
               ELSE cloneUnlessOtherwiseSpecified(target.o[k])])

\* deepmerge(target, source), the merge of line 401
merge(target, source) ==
    IF IsArr(source) # IsArr(target) THEN cloneUnlessOtherwiseSpecified(source)
    ELSE IF IsArr(source) THEN arrayMerge(target, source)
    ELSE mergeObject(target, source)

(***************************************************************************)
(* Prompts.                                                                *)
(***************************************************************************)
Answer(prompt, answer) == [prompt |-> prompt, answer |-> answer]

\* the checkbox choices of line 331, in order
Choices == <<"storage", "compute", "fetch", "other">>

\* the checked choices, in the order of the choices
Checked(S) ==
    LET F[i \in 0..Len(Choices)] ==
            IF i = 0 THEN <<>>
            ELSE IF Choices[i] \in S THEN Append(F[i-1], Str(Choices[i])) ELSE F[i-1]
    IN  Arr(F[Len(Choices)])

includes(arr, s) == \E i \in DOMAIN arr.a : arr.a[i] = Str(s)

(***************************************************************************)
(* main() from an await to the next.  Each operator below is the code that *)
(* runs, without suspending, from one point of the source on; an action is *)
(* the answer to an await followed by that code.                           *)
(***************************************************************************)
\* lines 427-428: yaml.dump and fs.writeFileSync
WriteOutput(fm) ==
    /\ outputFile' = Yaml(yamlDump(fm))
    /\ writes' = writes + 1
    /\ pc' = "done"
    /\ exitCode' = exitCode

\* a gate that writes without asking
GateUnasked(fm, w) ==
    /\ forgeManifest' = fm
    /\ WriteOutput(fm)

\* lines 405-433: the warnings gate, then the write
Gate(fm, w) ==
    /\ forgeManifest' = fm
    /\ IF Len(w) > 0
       THEN /\ pc' = "askProceed"
            /\ UNCHANGED <<outputFile, writes, exitCode>>
       ELSE WriteOutput(fm)

\* isPresent(existingManifest?.app?.connect)
hasConnectSection(existing) == isPresent(Prop(Prop(existing, "app"), "connect"))

\* line 401
mergeExisting(fm, existing) == merge(fm, existing)

\* lines 371-403: convertToForgemanifest returns [m, w]; main loads the
\* existing manifest and asks, merges or goes on
Return(m, w) ==
    /\ manifest' = m
    /\ warnings' = w
    /\ existingManifest' = loadExistingManifest(outputFile)
    /\ LET existing == loadExistingManifest(outputFile)
       IN  IF isPresent(existing)
           THEN IF hasConnectSection(existing)
                THEN /\ pc' = "askAction"
                     /\ forgeManifest' = m
                     /\ UNCHANGED <<outputFile, writes, exitCode>>
                ELSE Gate(mergeExisting(m, existing), w)
           ELSE Gate(m, w)

\* line 313: regionKeys.length > 0
hasRegionKeys(c) == DOMAIN entries(Prop(c, "regionBaseUrls")) # {}

\* lines 312-366, up to the checkbox prompt
RegionBaseUrls(m, w, c) ==
    IF hasRegionKeys(c)
    THEN /\ pc' = "askOperations"
         /\ manifest' = m
         /\ warnings' = w
         /\ UNCHANGED <<existingManifest, forgeManifest, outputFile, writes, exitCode>>
    ELSE Return(m, w)

MissingHookWarning ==
    "Region base URLs are present but no lifecycle hook for dare-migration event is defined."

\* connect.lifecycle?.["dare-migration"]
dareMigration(c) == Prop(Prop(c, "lifecycle"), "dare-migration")

\* the else branch without its warning
WithoutHookSilent(m, w, c) == RegionBaseUrls(m, w, c)

\* the else branch leaving convertToForgemanifest after its warning
WithoutHookSkipping(m, w, c) == Return(m, Append(w, MissingHookWarning))

\* lines 306-310 and on: the else branch of the hook test
WithoutHook(m, w, c) == RegionBaseUrls(m, Append(w, MissingHookWarning), c)

\* lines 287-310, up to the migration path prompt
DataResidency(m, w, c) ==
    IF isPresent(Prop(c, "regionBaseUrls"))
    THEN IF Truthy(dareMigration(c))
         THEN /\ pc' = "askMigrationPath"
              /\ manifest' = m
              /\ warnings' = w
              /\ UNCHANGED <<existingManifest, forgeManifest, outputFile, writes, exitCode>>
         ELSE WithoutHook(m, w, c)
    ELSE Return(m, w)

Unreachable == [unreachable |-> "ECONNREFUSED"]

\* a response body that is no JSON: axios leaves response.data the text
NotJson == Str("<html>Not Found</html>")

\* lines 377-378 and 98-106, then lines 175-286: axios.get settles; on success the
\* skeleton is built and converted up to the first prompt
Download ==
    /\ pc = "start"
    /\ UNCHANGED <<remote, type, operations, asked>>
    /\ IF remote = Unreachable
       THEN /\ pc' = "exited"
            /\ exitCode' = Num(1)
            /\ UNCHANGED <<connect, manifest, warnings, existingManifest, forgeManifest,
                         outputFile, writes>>
       ELSE IF genDefaultManifest(remote) = TypeError
            THEN \* the TypeError rejects main(); the handler of lines 435-437 logs
                 \* and returns, and the process ends with code 0
                 /\ pc' = "failed"
                 /\ exitCode' = Num(0)
                 /\ connect' = remote
                 /\ UNCHANGED <<manifest, warnings, existingManifest, forgeManifest,
                               outputFile, writes>>
       ELSE IF convertThrows(remote)
            THEN \* likewise, with the manifest as built up to the throw
                 /\ pc' = "failed"
                 /\ exitCode' = Num(0)
                 /\ connect' = descriptorAfterKeys(remote)
                 /\ manifest' = convertSync(genDefaultManifest(remote), remote, type)
                 /\ UNCHANGED <<warnings, existingManifest, forgeManifest, outputFile, writes>>
            ELSE /\ connect' = descriptorAfterKeys(remote)
                 /\ DataResidency(convertSync(genDefaultManifest(remote), remote, type),
                                  unsupportedWarnings(remote), remote)

MigrationPathWarning ==
    "Warning: You should specify a new migration path because JWT auth is not supported on migration endpoints."

\* the answer taken as typed
resolvedPathUntrimmed(migrationPath, defaultMigrationPath) ==
    IF migrationPath.c # <<>> THEN Str(Implode(migrationPath.c)) ELSE defaultMigrationPath

\* line 166: migrationPath.trim() || defaultMigrationPath
resolvedPath(migrationPath, defaultMigrationPath) ==
    IF trim(migrationPath.c) # <<>> THEN Str(Implode(trim(migrationPath.c)))
    ELSE defaultMigrationPath

\* lines 160-164
pathWarnings(migrationPath, w) ==
    IF trim(migrationPath.c) = <<>> THEN Append(w, MigrationPathWarning) ELSE w

\* lines 295-305
dataResidencyModules(c, path) ==
    Obj([k \in {"migration:dataResidency"} |->
           Arr(<<Obj([key |-> Str("dare"),
                      remote |-> Str("connect"),
                      path |-> path,
                      maxMigrationDurationHours |->
                          Prop(Prop(c, "dataResidency"), "maxMigrationDurationHours")])>>)])

\* lines 151-166 and 295-305, then 312 on: the migration path is answered
AnswerMigrationPath(migrationPath) ==
    /\ pc = "askMigrationPath"
    /\ asked' = Append(asked, Answer("migrationPath", migrationPath))
    /\ UNCHANGED <<remote, type, connect, operations>>
    /\ RegionBaseUrls(Put(manifest, "modules",
                          dataResidencyModules(connect,
                              resolvedPath(migrationPath, dareMigration(connect)))),
                      pathWarnings(migrationPath, warnings), connect)

\* line 312: Object.keys(connect.regionBaseUrls)
regionKeys(c) == DOMAIN entries(Prop(c, "regionBaseUrls"))

\* lines 314-323: the object literal { default: baseUrl } and then one
\* assignment regionBaseUrls[regionKey] = value per region key. The assignment
\* to the key "__proto__" goes to the prototype accessor of the literal and
\* adds no own property, whatever the value.
regionalBaseUrl(c) ==
    LET regions == entries(Prop(c, "regionBaseUrls"))
        stored  == regionKeys(c) \ {"__proto__"}
    IN  Obj([k \in {"default"} \cup stored |->
               IF k \in stored THEN regions[k] ELSE Prop(c, "baseUrl")])

\* remotes[0] with the operations as answered, an empty list included
remoteWithoutStorageAsAnswered(c, ops) ==
    Obj([key |-> Str("connect"),
         baseUrl |-> regionalBaseUrl(c),
         operations |-> ops])

\* lines 359-364: remotes[0] when storage is not among the operations
remoteWithoutStorage(c, ops) ==
    Obj([key |-> Str("connect"),
         baseUrl |-> regionalBaseUrl(c),
         operations |-> IF Len(ops.a) > 0 THEN ops ELSE Undef])

\* lines 345-352: remotes[0] when storage is among the operations
remoteWithStorage(c, ops, inScopeEUD) ==
    Obj([key |-> Str("connect"),
         baseUrl |-> regionalBaseUrl(c),
         operations |-> ops,
         storage |-> Obj([inScopeEUD |-> inScopeEUD])])

\* manifest.remotes[0] = r
setRemote0(m, r) ==
    Put(m, "remotes", Arr([i \in DOMAIN m.o.remotes.a |-> IF i = 1 THEN r ELSE m.o.remotes.a[i]]))

\* lines 325-335 and 353-366: the operations are answered
AnswerOperations(S) ==
    /\ pc = "askOperations"
    /\ asked' = Append(asked, Answer("operations", Checked(S)))
    /\ operations' = Checked(S)
    /\ UNCHANGED <<remote, type, connect>>
    /\ IF includes(Checked(S), "storage")
       THEN /\ pc' = "askInScopeEUD"
            /\ UNCHANGED <<manifest, warnings, existingManifest, forgeManifest, outputFile,
                         writes, exitCode>>
       ELSE Return(setRemote0(manifest, remoteWithoutStorage(connect, Checked(S))), warnings)

\* lines 336-352: the end-user-data question is answered
AnswerInScopeEUD(b) ==
    /\ pc = "askInScopeEUD"
    /\ asked' = Append(asked, Answer("inScopeEUD", Bool(b)))
    /\ UNCHANGED <<remote, type, connect, operations>>
    /\ Return(setRemote0(manifest, remoteWithStorage(connect, operations, Bool(b))), warnings)

\* an Override that merges the prior manifest in
AnswerActionMerging(action) ==
    /\ pc = "askAction"
    /\ asked' = Append(asked, Answer("action", Str(action)))
    /\ UNCHANGED <<remote, type, connect, manifest, warnings, operations, existingManifest>>
    /\ IF action = "Abort"
       THEN /\ pc' = "exited"
            /\ exitCode' = Num(0)
            /\ UNCHANGED <<forgeManifest, outputFile, writes>>
       ELSE Gate(merge(forgeManifest, existingManifest), warnings)

\* lines 392-397 and 405 on: Override or Abort is answered
AnswerAction(action) ==
    /\ pc = "askAction"
    /\ asked' = Append(asked, Answer("action", Str(action)))
    /\ UNCHANGED <<remote, type, connect, manifest, warnings, operations, existingManifest>>
    /\ IF action = "Abort"
       THEN /\ pc' = "exited"
            /\ exitCode' = Num(0)
            /\ UNCHANGED <<forgeManifest, outputFile, writes>>
       ELSE Gate(forgeManifest, warnings)

\* lines 421-433: the confirm-to-proceed gate is answered
AnswerProceed(proceed) ==
    /\ pc = "askProceed"
    /\ asked' = Append(asked, Answer("proceed", Bool(proceed)))
    /\ UNCHANGED <<remote, type, connect, manifest, warnings, operations,
                   existingManifest, forgeManifest>>
    /\ IF ~proceed
       THEN /\ pc' = "exited"
            /\ exitCode' = Num(0)
            /\ UNCHANGED <<outputFile, writes>>
       ELSE WriteOutput(forgeManifest)

(***************************************************************************)
(* The inputs: descriptors, prior output files, prompt answers.            *)
(***************************************************************************)
MaxScopes   == 2      \* longest scope list
MaxWebhooks == 2      \* longest webhooks array

Platforms == {"jira", "confluence"}

SeqsUpTo(S, n) == UNION {[1..k -> S] : k \in 0..n}

\* an object of the properties of f that are not undefined (absent from the JSON)
Present(f) == Obj([k \in {x \in DOMAIN f : f[x] # Undef} |-> f[k]])

Descriptor(scopes, lifecycle, modules, translations, regionBaseUrls, cam, licensing, residency) ==
    Present([name |-> Str("My App"), key |-> Str("abc"), baseUrl |-> Str("https://x"),
             scopes |-> scopes, lifecycle |-> lifecycle, modules |-> modules,
             translations |-> translations, regionBaseUrls |-> regionBaseUrls,
             cloudAppMigration |-> cam, enableLicensing |-> licensing,
             dataResidency |-> residency])

ScopeSamples ==
    { Txt(<<"R","E","A","D">>),
      Txt(<<"A","C","T","_","A","S","_","U","S","E","R">>),
      Txt(<<"s","p","a","c","e","_","A","d","m","i","n">>),
      Txt(<<"É","Σ">>),
      Txt(<<"_","Σ">>) }

ScopeLists == {Undef, Null} \cup {Arr(q) : q \in SeqsUpTo(ScopeSamples, MaxScopes)}

SomeScopes == Arr(<<Txt(<<"R","E","A","D">>)>>)

WebhookSamples ==
    { Obj([event |-> Str("e1")]),
      Obj([event |-> Str("e2"), key |-> Str("mine")]) }

WebhookValues ==
    {Undef, Null} \cup WebhookSamples \cup {Arr(q) : q \in SeqsUpTo(WebhookSamples, MaxWebhooks)}

Panel == Obj([key |-> Str("panel"), url |-> Str("/panel")])

PanelValues == {Undef, Null, Panel, Arr(<<Panel>>)}

ModuleMaps ==
    { Present([webhooks |-> wh, webPanels |-> wp, lifecycle |-> lc, translations |-> tr,
               cloudAppMigration |-> cm]) :
        wh \in WebhookValues, wp \in PanelValues,
        lc \in {Undef, Arr(<<Panel>>)}, tr \in {Undef, Panel}, cm \in {Undef, Panel} }

SomeModules == Obj([webPanels |-> Arr(<<Panel>>)])

Installed == Obj([installed |-> Str("/installed")])
WithHook  == Put(Installed, "dare-migration", Str("/dare"))

\* a lifecycle with an event that is named key
KeyEvent == Obj([key |-> Str("/key"), installed |-> Str("/installed")])

LifecycleValues ==
    { Undef, Obj(EmptyMap), Installed, WithHook, KeyEvent,
      Obj([k \in {"dare-migration"} |-> Str("")]) }

SomeTranslations == Obj([paths |-> Obj([en |-> Str("/i18n/en.json")])])

\* paths given as a list
ListedTranslations == Obj([paths |-> Arr(<<Str("/i18n/en.json")>>)])

TranslationValues ==
    {Undef, Obj([paths |-> Obj(EmptyMap)]), SomeTranslations, ListedTranslations}

SomeMigration == Obj([migrationWebhookPath |-> Str("/migrate")])

RegionValues ==
    { Undef, Null, Obj(EmptyMap),
      Obj([eu |-> Str("https://eu")]),
      Obj([eu |-> Str("https://eu"), us |-> Str("https://us")]),
      Obj([default |-> Str("https://elsewhere"), eu |-> Str("https://eu")]),
      Obj([__proto__ |-> Str("https://proto"), eu |-> Str("https://eu")]) }

SomeResidency == Obj([maxMigrationDurationHours |-> Num(5)])

\* descriptors that vary the modules and the sections that add connect modules
ModuleDescriptors ==
    { Descriptor(SomeScopes, lc, mods, tr, Undef, cam, Undef, Undef) :
        lc \in {Undef, Installed}, mods \in ModuleMaps,
        tr \in {Undef, SomeTranslations}, cam \in {Undef, SomeMigration} }

\* descriptors that vary the scopes, the lifecycle and the other sections
ScopeDescriptors ==
    { Descriptor(sc, lc, SomeModules, tr, Undef, Undef, lic, Undef) :
        sc \in ScopeLists, lc \in LifecycleValues, tr \in TranslationValues,
        lic \in {Undef, Bool(TRUE), Bool(FALSE)} }

\* descriptors that vary the data-residency sections
RegionDescriptors ==
    { Descriptor(SomeScopes, lc, SomeModules, Undef, rg, Undef, Undef, dr) :
        lc \in LifecycleValues, rg \in RegionValues, dr \in {Undef, SomeResidency} }

\* a descriptor without modules
NoModules == Descriptor(SomeScopes, Installed, Undef, Undef, Undef, Undef, Undef, Undef)

\* a response body that is the JSON null
NullBody == Null

\* descriptors that are JSON of another shape than ConnectDescriptor: modules
\* as a list, as a string, as a number; scopes as a string, or with an element
\* that is no string; a webhook that is null
MalformedDescriptors ==
    { Descriptor(SomeScopes, Installed, Arr(<<Panel>>), Undef, Undef, Undef, Undef, Undef),
      Descriptor(SomeScopes, Undef, Str("text"), Undef, Undef, Undef, Undef, Undef),
      Descriptor(SomeScopes, Undef, Num(0), Undef, Undef, Undef, Undef, Undef),
      Descriptor(Str("READ"), Undef, SomeModules, Undef, Undef, Undef, Undef, Undef),
      Descriptor(Arr(<<Txt(<<"R","E","A","D">>), Num(1)>>), Undef, SomeModules,
                 Undef, Undef, Undef, Undef, Undef),
      Descriptor(Obj([length |-> Str("5")]), Undef, SomeModules,
                 Undef, Undef, Undef, Undef, Undef),
      Put(Descriptor(SomeScopes, Installed, SomeModules, Undef, Undef, Undef, Undef, Undef),
          "name", Obj([toString |-> Str("My App")])),
      Descriptor(SomeScopes, Undef,
                 Obj([webhooks |-> Arr(<<Obj([event |-> Str("e1")]), Null>>)]),
                 Undef, Undef, Undef, Undef, Undef) }

\* descriptors converted over a prior output file
MergeDescriptors ==
    { Descriptor(SomeScopes, Undef, SomeModules, Undef, Undef, Undef, Undef, Undef),
      Descriptor(SomeScopes, Installed, SomeModules, Undef, Undef, Undef, Bool(TRUE), Undef),
      Descriptor(SomeScopes, Installed, SomeModules, Undef,
                 Obj([eu |-> Str("https://eu")]), Undef, Undef, Undef),
      Descriptor(SomeScopes, WithHook, SomeModules, Undef,
                 Obj([eu |-> Str("https://eu")]), Undef, Undef, SomeResidency) }

\* prior manifests without an app.connect section
PlainPriors ==
    { Obj([app |-> Obj([id |-> Str("ari:cloud:ecosystem::app/registered"),
                        runtime |-> Obj([name |-> Str("nodejs18.x")])]),
           modules |-> Obj([function |-> Arr(<<Obj([key |-> Str("fn")])>>)]),
           permissions |-> Obj([scopes |-> Arr(<<Str("storage:app")>>)])]),
      Obj([app |-> Obj([licensing |-> Obj([enabled |-> Bool(FALSE)])]),
           remotes |-> Arr(<<Obj([key |-> Str("other"), baseUrl |-> Str("https://other")])>>),
           connectModules |-> Obj([k \in {"jira:webPanels"} |->
                                     Arr(<<Obj([key |-> Str("kept")])>>)])]),
      Obj([app |-> Obj([connect |-> Null]),
           permissions |-> Obj([scopes |-> Str("none")])]),
      Obj([resources |-> Arr(<<Obj([key |-> Str("main")])>>)]) }

\* prior files of another shape than ForgeManifest: remotes as a mapping and a
\* key that every object inherits; a document that is a list, a string, a
\* number.  They are merged after a conversion without prompts.
OtherPriors ==
    { Obj([remotes |-> Obj([key |-> Str("other")]),
           app |-> Obj([toString |-> Str("app")])]),
      Arr(<<Obj([key |-> Str("listed")])>>), Str("text"), Num(0) }

\* the descriptors of MergeDescriptors that are converted without a prompt
PromptlessDescriptors == {d \in MergeDescriptors : ~isPresent(Prop(d, "regionBaseUrls"))}

\* m without its app.connect section
withoutConnect(m) ==
    Put(m, "app", Obj([k \in DOMAIN m.o.app.o \ {"connect"} |-> m.o.app.o[k]]))

\* the output file of an earlier run on descriptor d for platform t, its
\* app.connect section taken out since
Regenerated(d, t) == Yaml(withoutConnect(yamlDump(convertSync(genDefaultManifest(d), d, t))))

\* prior manifests with an app.connect section
ConnectPriors ==
    { Obj([app |-> Obj([id |-> Str("ari:cloud:ecosystem::app/registered"),
                        connect |-> Obj([key |-> Str("old"), remote |-> Str("connect")])]),
           remotes |-> Arr(<<Obj([key |-> Str("connect"), baseUrl |-> Str("https://old")])>>),
           connectModules |-> Obj(EmptyMap),
           permissions |-> Obj([scopes |-> Arr(<<Str("read:connect-jira")>>)])]) }

PriorFiles ==
    {NoFile, Unreadable, Yaml(Null)}
    \cup {Yaml(p) : p \in PlainPriors \cup ConnectPriors}

Scenarios ==
    {[remote |-> d, file |-> NoFile] :
        d \in ModuleDescriptors \cup ScopeDescriptors \cup RegionDescriptors
              \cup MalformedDescriptors \cup {NoModules, Unreachable, NotJson, NullBody}}
    \cup {[remote |-> d, file |-> f] : d \in MergeDescriptors, f \in PriorFiles}
    \cup {[remote |-> d, file |-> Yaml(p)] : d \in PromptlessDescriptors, p \in OtherPriors}
    \cup {[remote |-> d, file |-> Regenerated(d, t)] : d \in PromptlessDescriptors, t \in Platforms}

MigrationPathInputs ==
    { Txt(<<>>), Txt(<<" ", " ">>), Txt(<<"\r", "\n">>), Txt(<<"/", "n", "e", "w">>),
      Txt(<<" ", "/", "n", "e", "w", " ">>) }

Init ==
    /\ pc = "start"
    /\ \E sc \in Scenarios : remote = sc.remote /\ outputFile = sc.file
    /\ type \in Platforms
    /\ connect = Undef
    /\ manifest = Undef
    /\ existingManifest = Undef
    /\ forgeManifest = Undef
    /\ warnings = <<>>
    /\ operations = Undef
    /\ asked = <<>>
    /\ writes = 0
    /\ exitCode = Undef

Next ==
    \/ Download
    \/ \E migrationPath \in MigrationPathInputs : AnswerMigrationPath(migrationPath)
    \/ \E S \in SUBSET {Choices[i] : i \in DOMAIN Choices} : AnswerOperations(S)
    \/ \E b \in BOOLEAN : AnswerInScopeEUD(b)
    \/ \E action \in {"Override", "Abort"} : AnswerAction(action)
    \/ \E proceed \in BOOLEAN : AnswerProceed(proceed)

Spec == Init /\ [][Next]_vars

\* the runs that find no output file: main goes from the conversion to the
\* gate and the write, and lines 382-401 are not reached
InitFresh == Init /\ outputFile = NoFile

NextFresh ==
    \/ Download
    \/ \E migrationPath \in MigrationPathInputs : AnswerMigrationPath(migrationPath)
    \/ \E S \in SUBSET {Choices[i] : i \in DOMAIN Choices} : AnswerOperations(S)
    \/ \E b \in BOOLEAN : AnswerInScopeEUD(b)
    \/ \E proceed \in BOOLEAN : AnswerProceed(proceed)

SpecFresh == InitFresh /\ [][NextFresh]_vars

(***************************************************************************)
(* Properties.                                                             *)
(***************************************************************************)
\* convertToForgemanifest has returned to main
Converted == pc \in {"askAction", "askProceed", "done"} \/ (pc = "exited" /\ exitCode = Num(0))

\* a prompt was answered
Answered(prompt) == \E i \in DOMAIN asked : asked[i].prompt = prompt

connectModules == manifest.o.connectModules.o

descriptorModules == entries(Prop(remote, "modules"))

hasTranslationPaths ==
    LET paths == Prop(Prop(remote, "translations"), "paths")
    IN  Truthy(paths) /\ DOMAIN entries(paths) # {}

hasMigrationWebhook ==
    Truthy(Prop(Prop(remote, "cloudAppMigration"), "migrationWebhookPath"))

\* C1 as stated: after conversion the keys of connectModules are exactly
\* "<platform>:<type>" for the keys of descriptor.modules, null-valued types
\* included and nothing else, whatever other sections the descriptor has.
C1_KeysAreModuleTypes ==
    Converted => DOMAIN connectModules = {type \o ":" \o mt : mt \in DOMAIN descriptorModules}

\* C1 amended: after conversion the keys of connectModules are exactly
\* "<platform>:<type>" for the keys of descriptor.modules whose value is not
\* null, plus "<platform>:lifecycle" when the descriptor has a lifecycle
\* section, "<platform>:translations" when translations.paths is non-empty and
\* "<platform>:cloudAppMigration" when migrationWebhookPath is set.
C1_KeysAreModulesAndSections ==
    Converted =>
        DOMAIN connectModules =
            {type \o ":" \o mt : mt \in {x \in DOMAIN descriptorModules : descriptorModules[x] # Null}}
            \cup (IF HasProp(remote, "lifecycle") THEN {type \o ":lifecycle"} ELSE {})
            \cup (IF hasTranslationPaths THEN {type \o ":translations"} ELSE {})
            \cup (IF hasMigrationWebhook THEN {type \o ":cloudAppMigration"} ELSE {})

\* C1 witness: a converted descriptor with a null module type, a lifecycle and
\* a translations section next to two module types that are copied
C1_Witness ==
    /\ Converted
    /\ \E mt \in DOMAIN descriptorModules : descriptorModules[mt] = Null
    /\ HasProp(remote, "lifecycle") /\ hasTranslationPaths /\ hasMigrationWebhook
    /\ Cardinality(DOMAIN connectModules) = 4

\* what each sample scope must become, written out
ExpectedScope(scope) ==
    CASE scope = Txt(<<"R","E","A","D">>) -> "read"
      [] scope = Txt(<<"A","C","T","_","A","S","_","U","S","E","R">>) -> "act-as-user"
      [] scope = Txt(<<"s","p","a","c","e","_","A","d","m","i","n">>) -> "space-admin"
      [] scope = Txt(<<"É","Σ">>) -> "éς"
      [] scope = Txt(<<"_","Σ">>) -> "-σ"

\* C3: permissions.scopes after conversion has the length of the descriptor's
\* scope list, and its i-th entry is the i-th scope lower-cased, every
\* underscore a hyphen, followed by ":connect-<platform>".
C3_ScopesMapped ==
    (Converted /\ IsArr(Prop(remote, "scopes"))) =>
        LET scopes == Prop(remote, "scopes").a
            out    == manifest.o.permissions.o.scopes.a
        IN  /\ Len(out) = Len(scopes)
            /\ \A i \in DOMAIN scopes :
                   out[i] = Str(ExpectedScope(scopes[i]) \o ":connect-" \o type)

\* C3 witness: a list of two scopes, ACT_AS_USER among them, was converted
C3_Witness ==
    /\ Converted
    /\ IsArr(Prop(remote, "scopes"))
    /\ Len(Prop(remote, "scopes").a) >= 2
    /\ \E i \in DOMAIN Prop(remote, "scopes").a :
           Prop(remote, "scopes").a[i] = Txt(<<"A","C","T","_","A","S","_","U","S","E","R">>)
    /\ Len(manifest.o.permissions.o.scopes.a) >= 2

\* C5: after conversion app.connect.authentication is "jwt" exactly when the
\* descriptor has a lifecycle section, and is unset otherwise.
C5_JwtIffLifecycle ==
    Converted =>
        LET appConnect == manifest.o.app.o.connect
        IN  /\ (Prop(appConnect, "authentication") = Str("jwt")) <=> HasProp(remote, "lifecycle")
            /\ ~HasProp(remote, "lifecycle") => ~HasProp(appConnect, "authentication")

\* C5 witness: a descriptor with an (empty) lifecycle section was converted
C5_Witness ==
    /\ Converted
    /\ Prop(remote, "lifecycle") = Obj(EmptyMap)
    /\ Prop(manifest.o.app.o.connect, "authentication") = Str("jwt")

\* regionBaseUrls is declared and the lifecycle has no dare-migration entry
RegionsWithoutHook ==
    /\ isPresent(Prop(remote, "regionBaseUrls"))
    /\ ~HasProp(Prop(remote, "lifecycle"), "dare-migration")

\* how often a warning is in the list
Count(w, text) == Cardinality({i \in DOMAIN w : w[i] = text})

\* C6: with regionBaseUrls and no dare-migration hook, conversion appends the
\* missing-hook warning exactly once, never asks for a migration path and
\* never creates modules["migration:dataResidency"].
C6_MissingHook ==
    (RegionsWithoutHook /\ pc # "start") =>
        /\ Count(warnings, MissingHookWarning) = 1
        /\ pc # "askMigrationPath" /\ ~Answered("migrationPath")
        /\ ~HasProp(manifest, "modules")

\* C6 witness: regions without any lifecycle were converted and the warning is there
C6_Witness ==
    /\ Converted
    /\ RegionsWithoutHook /\ ~HasProp(remote, "lifecycle")
    /\ warnings = <<MissingHookWarning>>

\* the slot of a module type
slot(mt) == connectModules[type \o ":" \o mt]

\* the module value as an array: itself, or the one-element array holding it.
\* The arrays are those of the descriptor object, which the webhook keys of
\* lines 268-272 are written into as well.
asArray(mt) ==
    LET v == entries(Prop(connect, "modules"))[mt]
    IN  IF IsArr(v) THEN v ELSE Arr(<<v>>)

\* C2 as stated: after conversion every slot of connectModules is an array, a
\* single-object module value is there as the one-element array holding it and
\* an array value as that array.
C2_ModuleValuesKept ==
    Converted =>
        /\ \A k \in DOMAIN connectModules : IsArr(connectModules[k])
        /\ \A mt \in DOMAIN descriptorModules :
               descriptorModules[mt] # Null => slot(mt) = asArray(mt)

\* the webhook objects the descriptor declares, in order
declaredWebhooks ==
    LET webhooks == Prop(Prop(remote, "modules"), "webhooks")
    IN  IF IsArr(webhooks) THEN webhooks.a ELSE <<webhooks>>

\* C4: after conversion, for a webhooks module of M objects (an array, or a
\* single object made a one-element array) the i-th element of the slot is the
\* i-th webhook with key "webhook-i", whatever key it had.
C4_WebhooksKeyed ==
    (Converted /\ Truthy(Prop(Prop(remote, "modules"), "webhooks"))) =>
        /\ Len(slot("webhooks").a) = Len(declaredWebhooks)
        /\ \A i \in DOMAIN declaredWebhooks :
               slot("webhooks").a[i] = Put(declaredWebhooks[i], "key", Str("webhook-" \o ToString(i)))

\* regionBaseUrls has a region and the lifecycle has no dare-migration entry
RegionKeysWithoutHook ==
    /\ RegionsWithoutHook
    /\ DOMAIN Prop(remote, "regionBaseUrls").o # {}

\* C7 as stated: with a non-empty regionBaseUrls and no dare-migration hook the
\* operations prompt is not issued and remotes[0] stays the skeleton's, its
\* baseUrl the scalar descriptor.baseUrl.
C7_BranchSkipped ==
    (RegionKeysWithoutHook /\ pc # "start") =>
        /\ pc \notin {"askOperations", "askInScopeEUD"} /\ ~Answered("operations")
        /\ manifest.o.remotes.a[1] =
               Obj([key |-> Str("connect"), baseUrl |-> Prop(remote, "baseUrl")])

\* C7 amended: with a non-empty regionBaseUrls and no dare-migration hook the
\* rest of the branch is not skipped: the operations prompt is issued, and
\* after conversion remotes[0] is rewritten, its baseUrl no longer the scalar
\* descriptor.baseUrl but a regional mapping (an object with a default entry).
C7_BranchContinues ==
    (RegionKeysWithoutHook /\ pc # "start") =>
        /\ pc \in {"askOperations", "askInScopeEUD"} \/ Answered("operations")
        /\ Converted =>
               LET baseUrl == manifest.o.remotes.a[1].o.baseUrl
               IN  /\ IsObj(baseUrl)
                   /\ "default" \in DOMAIN baseUrl.o
                   /\ baseUrl # Prop(remote, "baseUrl")

\* C7 witness: regions without a hook were converted and the operations were asked
C7_Witness ==
    /\ Converted
    /\ RegionKeysWithoutHook
    /\ Answered("operations")
    /\ IsObj(manifest.o.remotes.a[1].o.baseUrl)
    /\ Count(warnings, MissingHookWarning) = 1

\* main merged a prior manifest that has no app.connect section
Merged == isPresent(existingManifest) /\ ~hasConnectSection(existingManifest)

RECURSIVE At(_, _)
\* the value at a path of property names, undefined when there is none
At(v, path) == IF path = <<>> THEN v ELSE At(Prop(v, Head(path)), Tail(path))

RECURSIVE Paths(_)
\* the paths to every value inside an object (arrays are not entered)
Paths(v) ==
    IF IsObj(v)
    THEN {<<>>} \cup UNION {{<<k>> \o p : p \in Paths(v.o[k])} : k \in DOMAIN v.o}
    ELSE {<<>>}

\* the fields the claim names, as paths
FreshFields == {<<"app", "id">>, <<"app", "runtime", "name">>, <<"app", "licensing", "enabled">>}

\* array keep their length and contents).
C9_RemergeUnchanged ==
    (Merged /\ existingManifest = withoutConnect(yamlDump(manifest))) =>
        forgeManifest = manifest

\* a prompt was answered with a
AnsweredWith(prompt, a) == \E i \in DOMAIN asked : asked[i] = Answer(prompt, a)

\* C10: when the prior manifest has an app.connect section nothing is merged
\* and Override or Abort is asked; on Abort the process exits with code 0 and
\* the file is never written; on Override the manifest written is the fresh one.
C10_Conflict ==
    hasConnectSection(existingManifest) =>
        /\ forgeManifest = manifest
        /\ pc = "askAction" \/ Answered("action")
        /\ pc = "askAction" => writes = 0
        /\ AnsweredWith("action", Str("Abort")) =>
               /\ pc = "exited" /\ exitCode = Num(0)
               /\ writes = 0 /\ outputFile = Yaml(existingManifest)
        /\ AnsweredWith("action", Str("Override")) =>
               /\ pc \in {"askProceed", "done", "exited"}
               /\ pc = "done" => writes = 1 /\ outputFile = Yaml(yamlDump(manifest))

\* C10 witness: the operator chose Override and the fresh manifest was written
C10_Witness ==
    /\ hasConnectSection(existingManifest)
    /\ AnsweredWith("action", Str("Override"))
    /\ pc = "done"
    /\ outputFile = Yaml(yamlDump(manifest))
    /\ outputFile # Yaml(existingManifest)

\* a prompt is waiting for its answer
PromptPending == pc \in {"askMigrationPath", "askOperations", "askInScopeEUD", "askAction", "askProceed"}

\* C11: the output file is written at most once, with no prompt pending and
\* none answered afterwards (the write is the last step of the run); with a
\* non-empty warning list the write follows a yes at the confirm-to-proceed
\* gate, which is then the last prompt answered; a no at the gate ends the
\* process with exit code 0 and without a write; with an empty warning list
\* the gate is neither shown nor answered.
C11_WriteOnceAfterGate ==
    /\ writes <= 1
    /\ writes = 1 => pc = "done" /\ ~PromptPending /\ ~(ENABLED Next)
    /\ (writes = 1 /\ Len(warnings) > 0) =>
           /\ Len(asked) > 0
           /\ asked[Len(asked)] = Answer("proceed", Bool(TRUE))
    /\ AnsweredWith("proceed", Bool(FALSE)) =>
           /\ pc = "exited" /\ exitCode = Num(0)
           /\ writes = 0
    /\ (pc = "askProceed" \/ Answered("proceed")) => Len(warnings) > 0
    /\ (pc = "done" /\ Len(warnings) = 0) => writes = 1 /\ ~Answered("proceed")

\* C11 witness: a run with a warning answered three prompts, the last one the
\* gate with yes, and then wrote the file once
C11_Witness ==
    /\ pc = "done" /\ writes = 1
    /\ Len(warnings) > 0
    /\ Len(asked) >= 3
    /\ asked[Len(asked)] = Answer("proceed", Bool(TRUE))
    /\ outputFile = Yaml(yamlDump(forgeManifest))

\* the download did not deliver a descriptor: no response, or a body that is no JSON
DownloadFailed == remote \in {Unreachable, NotJson}

\* C12 as stated: when the descriptor cannot be retrieved or cannot be parsed
\* the run ends with a non-zero exit code, with no transformation step and no
\* prompt executed and no file written; and a transformation step has run only
\* after a download that succeeded.
C12_FailedDownloadIsFatal ==
    /\ (DownloadFailed /\ pc # "start") =>
           /\ pc \in {"exited", "failed"}
           /\ exitCode \notin {Undef, Num(0)}
           /\ manifest = Undef
           /\ asked = <<>>
           /\ writes = 0 /\ outputFile = NoFile
    /\ manifest # Undef => (pc # "start" /\ remote # Unreachable)

\* the regions the descriptor declares: name -> base URL
declaredRegions ==
    IF isPresent(Prop(remote, "regionBaseUrls")) THEN entries(Prop(remote, "regionBaseUrls"))
    ELSE EmptyMap

\* m.remotes[0]
firstRemote(m) ==
    LET remotes == Prop(m, "remotes")
    IN  IF IsArr(remotes) /\ remotes.a # <<>> THEN remotes.a[1] ELSE Undef

\* r is the connect remote of the descriptor: its base URL is the scalar one, or,
\* for a descriptor with regions, default plus every region with its value
IsConnectRemote(r) ==
    /\ Prop(r, "key") = Str("connect")
    /\ LET baseUrl == Prop(r, "baseUrl")
       IN  IF DOMAIN declaredRegions = {}
           THEN baseUrl = Prop(remote, "baseUrl")
           ELSE /\ IsObj(baseUrl)
                /\ DOMAIN baseUrl.o = {"default"} \cup DOMAIN declaredRegions
                /\ baseUrl.o["default"] = Prop(remote, "baseUrl")
                /\ \A region \in DOMAIN declaredRegions :
                       baseUrl.o[region] = declaredRegions[region]

\* C13 as stated: in the manifest that conversion returns, in the one main
\* goes on with after the merge with a prior manifest without app.connect, and
\* in the file written from it, remotes[0] has key "connect" and its baseUrl
\* is the scalar descriptor.baseUrl or, when regions are declared, the mapping
\* of default to descriptor.baseUrl and of every declared region to its
\* declared value, with no other entry.
C13_ConnectRemoteFirst ==
    Converted =>
        /\ IsConnectRemote(firstRemote(manifest))
        /\ IsConnectRemote(firstRemote(forgeManifest))
        /\ pc = "done" => IsConnectRemote(firstRemote(outputFile.yaml))

\* the answer given to a prompt
answerTo(prompt) == asked[CHOOSE i \in DOMAIN asked : asked[i].prompt = prompt].answer

\* C14: once the operations prompt is answered with S, the end-user-data
\* prompt is asked exactly when storage is in S; after conversion remotes[0]
\* has storage.inScopeEUD, set to that answer, exactly in that case and no
\* storage field otherwise; remotes[0].operations is S when S is non-empty and
\* is undefined, and missing from the written file, when S is empty; with S
\* empty the conversion completes as well, and the only warnings are those
\* recorded before the prompt (missing hook or defaulted migration path).
C14_OperationsAndStorage ==
    Answered("operations") =>
        LET S == answerTo("operations")
            r == manifest.o.remotes.a[1]
        IN  /\ operations = S
            /\ (pc = "askInScopeEUD" \/ Answered("inScopeEUD")) <=> includes(S, "storage")
            /\ pc = "askInScopeEUD" \/ Converted
            /\ Len(warnings) <= 1
            /\ \A i \in DOMAIN warnings :
                   warnings[i] \in {MissingHookWarning, MigrationPathWarning}
            /\ Converted =>
                   /\ IF includes(S, "storage")
                      THEN Prop(r, "storage") = Obj([inScopeEUD |-> answerTo("inScopeEUD")])
                      ELSE ~HasProp(r, "storage")
                   /\ IF Len(S.a) > 0
                      THEN Prop(r, "operations") = S
                      ELSE Prop(r, "operations") = Undef
                   /\ (pc = "done" /\ Len(S.a) = 0) =>
                          ~HasProp(outputFile.yaml.o.remotes.a[1], "operations")

\* C14 witness: no operation was chosen, the conversion went on without a
\* warning and the file was written with a regional remote without operations
C14_Witness ==
    /\ AnsweredWith("operations", Arr(<<>>))
    /\ ~Answered("inScopeEUD")
    /\ pc = "done" /\ warnings = <<>>
    /\ IsObj(outputFile.yaml.o.remotes.a[1].o.baseUrl)
    /\ ~HasProp(outputFile.yaml.o.remotes.a[1], "operations")
    /\ ~HasProp(outputFile.yaml.o.remotes.a[1], "storage")

\* the descriptor declares regionBaseUrls and a dare-migration hook
RegionsWithHook ==
    /\ isPresent(Prop(remote, "regionBaseUrls"))
    /\ Truthy(Prop(Prop(remote, "lifecycle"), "dare-migration"))

\* what each sample answer must resolve to, written out
ExpectedPath(answer) ==
    CASE answer = Txt(<<>>) -> Prop(Prop(remote, "lifecycle"), "dare-migration")
      [] answer = Txt(<<" ", " ">>) -> Prop(Prop(remote, "lifecycle"), "dare-migration")
      [] answer = Txt(<<"\r", "\n">>) -> Prop(Prop(remote, "lifecycle"), "dare-migration")
      [] answer = Txt(<<"/", "n", "e", "w">>) -> Str("/new")
      [] answer = Txt(<<" ", "/", "n", "e", "w", " ">>) -> Str("/new")

\* the sample answers that are empty once trimmed
BlankAnswers == {Txt(<<>>), Txt(<<" ", " ">>), Txt(<<"\r", "\n">>)}

\* C15: with regionBaseUrls and a dare-migration hook the migration path is
\* asked first, and no modules section exists while the prompt waits; once
\* answered, modules["migration:dataResidency"] is a single entry with key
\* "dare", remote "connect" and as path the trimmed answer, or the hook path
\* when the trimmed answer is empty; the defaulted-path warning is in the list
\* once in that case and not at all otherwise; maxMigrationDurationHours has
\* the descriptor's value, and is in the written file only when declared.
C15_MigrationPath ==
    (RegionsWithHook /\ pc \notin {"start", "failed"}) =>
        /\ pc = "askMigrationPath" \/ Answered("migrationPath")
        /\ pc = "askMigrationPath" => (asked = <<>> /\ ~HasProp(manifest, "modules"))
        /\ Answered("migrationPath") =>
               LET answer == answerTo("migrationPath")
                   dare   == manifest.o.modules.o["migration:dataResidency"]
                   hours  == Prop(Prop(remote, "dataResidency"), "maxMigrationDurationHours")
               IN  /\ asked[1].prompt = "migrationPath"
                   /\ DOMAIN manifest.o.modules.o = {"migration:dataResidency"}
                   /\ Len(dare.a) = 1
                   /\ dare.a[1].o.key = Str("dare")
                   /\ dare.a[1].o.remote = Str("connect")
                   /\ dare.a[1].o.path = ExpectedPath(answer)
                   /\ Prop(dare.a[1], "maxMigrationDurationHours") = hours
                   /\ Count(warnings, MigrationPathWarning) =
                          (IF answer \in BlankAnswers THEN 1 ELSE 0)
                   /\ pc = "done" =>
                          LET written == outputFile.yaml.o.modules.o["migration:dataResidency"].a[1]
                          IN  /\ written.o.path = ExpectedPath(answer)
                              /\ HasProp(written, "maxMigrationDurationHours") <=> hours # Undef

\* C15 witness: an answer with blanks around it was trimmed, no warning was
\* added for it, and the entry was written without a declared duration
C15_Witness ==
    /\ RegionsWithHook /\ pc = "done"
    /\ AnsweredWith("migrationPath", Txt(<<" ", "/", "n", "e", "w", " ">>))
    /\ manifest.o.modules.o["migration:dataResidency"].a[1].o.path = Str("/new")
    /\ warnings = <<>>
    /\ ~HasProp(remote, "dataResidency")
    /\ ~HasProp(outputFile.yaml.o.modules.o["migration:dataResidency"].a[1],
                "maxMigrationDurationHours")

\* the descriptor's lifecycle entries other than dare-migration
keptEvents == DOMAIN Prop(remote, "lifecycle").o \ {"dare-migration"}

\* C16 as stated: for a descriptor with a lifecycle section, after conversion
\* connectModules["<platform>:lifecycle"] is a one-element array whose object
\* has key "lifecycle-events" and, besides the key, exactly the lifecycle
\* entries other than dare-migration, each with its path, whatever the event
\* names and whatever the module types of descriptor.modules.
C16_LifecycleEntry ==
    (Converted /\ HasProp(remote, "lifecycle")) =>
        /\ (type \o ":lifecycle") \in DOMAIN connectModules
        /\ LET stored == slot("lifecycle")
           IN  /\ IsArr(stored) /\ Len(stored.a) = 1
               /\ IsObj(stored.a[1])
               /\ Prop(stored.a[1], "key") = Str("lifecycle-events")
               /\ DOMAIN stored.a[1].o = {"key"} \cup keptEvents
               /\ \A event \in keptEvents \ {"key"} :
                      stored.a[1].o[event] = Prop(remote, "lifecycle").o[event]

====
